---- MODULE Spec2Model ----
(***************************************************************************)
(* The MCP tool server of mcp-server-251215, in its two source variants:   *)
(*   "inline"   src/src/index.ts      (server.tool, failures are returned  *)
(*                                     as { content, isError: true })      *)
(*   "throwing" src/unnamed/part_000  (server.registerTool, failures are   *)
(*                                     thrown and wrapped by the SDK)      *)
(*                                                                         *)
(* A text is a sequence of segments: the pieces of the template literal    *)
(* that builds it, in order; the text itself is their concatenation.       *)
(* The Korean literals of the source are written here as ASCII stand-ins   *)
(* (one fixed stand-in per literal), the original is quoted in a comment.  *)
(***************************************************************************)
EXTENDS Integers, Sequences, FiniteSets, TLC

(***************************************************************************)
(* Bounds of the model.                                                    *)
(***************************************************************************)
\* numerators of the calculator operands range over -MaxNum..MaxNum
MaxNum == 2
\* denominators of the calculator operands range over 1..MaxDen
MaxDen == 2
\* the geocoding upstream returns at most MaxResults matches
MaxResults == 3
\* the weather upstream returns at most MaxDays daily entries
MaxDays == 3
\* the weather upstream returns at most MaxHours hourly entries
MaxHours == 25
\* getWeatherDescription is put to the codes -MaxCode..MaxCode
MaxCode == 100
\* the code put to the code-review prompt has at most MaxCodeLen pieces
MaxCodeLen == 2
\* its language and context have at most MaxLabelLen pieces
MaxLabelLen == 1

(***************************************************************************)
(* JavaScript values.  A number is the rational n/d (d >= 1, reduced).     *)
(***************************************************************************)
Undef == [t |-> "undefined", n |-> 0, d |-> 1, s |-> ""]
Null == [t |-> "null", n |-> 0, d |-> 1, s |-> ""]
Str(s) == [t |-> "string", n |-> 0, d |-> 1, s |-> s]
Bool(b) == [t |-> "boolean", n |-> IF b THEN 1 ELSE 0, d |-> 1, s |-> ""]

Abs(x) == IF x < 0 THEN -x ELSE x

RECURSIVE GCD(_, _)
GCD(a, b) == IF b = 0 THEN a ELSE GCD(b, a % b)

\* the number n/d, d # 0, in lowest terms with a positive denominator
Rat(n, d) ==
    LET g == GCD(Abs(n), Abs(d))
        sgn == IF d < 0 THEN -1 ELSE 1
    IN [t |-> "number", n |-> sgn * (n \div g), d |-> Abs(d) \div g, s |-> ""]

Num(n) == Rat(n, 1)

\* JavaScript truthiness (x ? .. : .., x || y, if (x))
Truthy(v) ==
    CASE v.t = "undefined" -> FALSE
      [] v.t = "null" -> FALSE
      [] v.t = "string" -> v.s # ""
      [] v.t = "number" -> v.n # 0
      [] v.t = "boolean" -> v.n = 1
      [] OTHER -> TRUE

\* Number.prototype.toString: the decimal digits of an integer; a quotient
\* that is no integer is shown as its reduced fraction, which stands for
\* its decimal expansion (one text per number)
NumText(v) == IF v.d = 1 THEN ToString(v.n) ELSE ToString(v.n) \o "/" \o ToString(v.d)

\* `${v}` in a template literal
Render(v) ==
    CASE v.t = "undefined" -> "undefined"
      [] v.t = "null" -> "null"
      [] v.t = "string" -> v.s
      [] v.t = "number" -> NumText(v)
      [] v.t = "boolean" -> IF v.n = 1 THEN "true" ELSE "false"
      [] OTHER -> "[object Object]"

(***************************************************************************)
(* InvocationResult: content blocks, optional structured mirror (a         *)
(* sequence of length 0 or 1), error flag.                                 *)
(***************************************************************************)
TextBlock(text) == [type |-> "text", text |-> text, data |-> <<>>, mimeType |-> ""]
ImageBlock(data) == [type |-> "image", text |-> <<>>, data |-> data, mimeType |-> "image/png"]

NoResult == [content |-> <<>>, isError |-> FALSE, structuredContent |-> <<>>]

\* { content: [{ type: 'text', text }] }
TextResult(text) ==
    [content |-> <<TextBlock(text)>>, isError |-> FALSE, structuredContent |-> <<>>]
\* { content: [{ type: 'text', text }], isError: true }
ErrorResult(text) ==
    [content |-> <<TextBlock(text)>>, isError |-> TRUE, structuredContent |-> <<>>]
\* a result whose mirror lost the text
MirroredResultBlank(text) ==
    [content |-> <<TextBlock(text)>>, isError |-> FALSE,
     structuredContent |-> <<[content |-> <<TextBlock(<<>>)>>]>>]

\* { content: [{ type: 'text', text }], structuredContent: { content: [{ type: 'text', text }] } }
MirroredResult(text) ==
    [content |-> <<TextBlock(text)>>, isError |-> FALSE,
     structuredContent |-> <<[content |-> <<TextBlock(text)>>]>>]

\* what a handler does: it returns a result or throws an Error with a message
Return(r) == [kind |-> "return", result |-> r, message |-> <<>>]
Throw(msg) == [kind |-> "throw", result |-> NoResult, message |-> msg]

\* the dispatcher (McpServer): a returned result goes to the caller
\* unchanged, a thrown error becomes one text block with the error flag set
ToolResult(outcome) ==
    IF outcome.kind = "return" THEN outcome.result
    ELSE [content |-> <<TextBlock(outcome.message)>>, isError |-> TRUE,
          structuredContent |-> <<>>]

(***************************************************************************)
(* Argument bags and the declared input schemas (zod).                     *)
(***************************************************************************)
ArgNames == {"name", "language", "num1", "num2", "operator", "timezone",
             "address", "limit", "country", "latitude", "longitude",
             "forecast_days", "prompt"}

EmptyBag == [f \in ArgNames |-> Undef]

ToolNames == {"greet", "calculator", "getTime", "geocode", "get-weather",
              "generate-image"}

\* one field of a schema; enum = {} when the field is no enum
Field(name, type, optional, default, enum, int, bounded, min, max) ==
    [name |-> name, type |-> type, optional |-> optional, default |-> default,
     enum |-> enum, int |-> int, bounded |-> bounded, min |-> min, max |-> max]

StringField(name, optional) == Field(name, "string", optional, Undef, {}, FALSE, FALSE, 0, 0)
EnumField(name, enum, optional, default) ==
    Field(name, "string", optional, default, enum, FALSE, FALSE, 0, 0)
NumberField(name) == Field(name, "number", FALSE, Undef, {}, FALSE, FALSE, 0, 0)
RangeField(name, int, min, max, optional, default) ==
    Field(name, "number", optional, default, {}, int, TRUE, min, max)

greetSchema ==
    << StringField("name", FALSE),
       EnumField("language", {"ko", "en"}, TRUE, Str("en")) >>

calculatorSchema ==
    << NumberField("num1"), NumberField("num2"),
       EnumField("operator", {"+", "-", "*", "/"}, FALSE, Undef) >>

getTimeSchema == << StringField("timezone", FALSE) >>

geocodeSchema ==
    << StringField("address", FALSE),
       RangeField("limit", TRUE, 1, 10, TRUE, Num(1)),
       StringField("country", TRUE) >>

\* index.ts declares no timezone field: zod strips the unknown key
weatherSchemaInline ==
    << RangeField("latitude", FALSE, -90, 90, FALSE, Undef),
       RangeField("longitude", FALSE, -180, 180, FALSE, Undef),
       RangeField("forecast_days", TRUE, 1, 16, TRUE, Num(7)) >>

weatherSchemaThrowing == weatherSchemaInline \o << StringField("timezone", TRUE) >>

generateImageSchema == << StringField("prompt", FALSE) >>

inputSchema(v, tool) ==
    CASE tool = "greet" -> greetSchema
      [] tool = "calculator" -> calculatorSchema
      [] tool = "getTime" -> getTimeSchema
      [] tool = "geocode" -> geocodeSchema
      [] tool = "get-weather" ->
            IF v = "inline" THEN weatherSchemaInline ELSE weatherSchemaThrowing
      [] OTHER -> generateImageSchema

\* a check that looks at the type only: no enum, no integer, no range
FieldOkTypeOnly(f, x) ==
    IF x.t = "undefined" THEN f.optional
    ELSE x.t = f.type

\* does value x satisfy field f
FieldOk(f, x) ==
    IF x.t = "undefined" THEN f.optional
    ELSE /\ x.t = f.type
         /\ (f.enum # {} => x.s \in f.enum)
         /\ (f.int => x.d = 1)
         /\ (f.bounded => (f.min * x.d <= x.n /\ x.n <= f.max * x.d))

\* the fields of the bag that violate the schema
Offending(schema, bag) ==
    {schema[i].name : i \in {j \in 1..Len(schema) : ~FieldOk(schema[j], bag[schema[j].name])}}

\* the parsed bag: declared fields only, defaults applied
Parsed(schema, bag) ==
    [f \in ArgNames |->
        IF \E i \in 1..Len(schema) : schema[i].name = f
        THEN LET fs == schema[CHOOSE i \in 1..Len(schema) : schema[i].name = f]
             IN IF bag[f].t = "undefined" THEN fs.default ELSE bag[f]
        ELSE Undef]

(***************************************************************************)
(* greet                                                                   *)
(***************************************************************************)
\* a greeting that ignores the language
greetingEnglishOnly(a) ==
    <<"Hey there, ", Render(a.name), "! (wave) Nice to meet you!">>

\* language === 'ko' ? `안녕하세요, ${name}님!` : `Hey there, ${name}! 👋 Nice to meet you!`
greeting(a) ==
    IF a.language = Str("ko")
    THEN <<"annyeonghaseyo, ", Render(a.name), "nim!">>
    ELSE <<"Hey there, ", Render(a.name), "! (wave) Nice to meet you!">>

GreetInline(a) == Return(TextResult(greeting(a)))
GreetThrowing(a) == Return(MirroredResult(greeting(a)))

(***************************************************************************)
(* calculator                                                              *)
(***************************************************************************)
\* '0으로 나눌 수 없습니다'
DivZeroMsg == "cannot divide by zero"
\* '지원하지 않는 연산자입니다'
BadOperatorMsg == "unsupported operator"

Add(x, y) == Rat(x.n * y.d + y.n * x.d, x.d * y.d)
Sub(x, y) == Rat(x.n * y.d - y.n * x.d, x.d * y.d)
Mul(x, y) == Rat(x.n * y.n, x.d * y.d)
\* x / y for y # 0
Div(x, y) == Rat(x.n * y.d, x.d * y.n)

\* `${num1} ${operator} ${num2} = ${result}`
calcText(a, result) ==
    <<Render(a.num1), " ", Render(a.operator), " ", Render(a.num2), " = ", Render(result)>>

\* a switch without the num2 === 0 guard: the quotient is Infinity
calcSwitchUnguarded(a) ==
    CASE a.operator.s = "+" -> [fail |-> "", result |-> Add(a.num1, a.num2)]
      [] a.operator.s = "-" -> [fail |-> "", result |-> Sub(a.num1, a.num2)]
      [] a.operator.s = "*" -> [fail |-> "", result |-> Mul(a.num1, a.num2)]
      [] a.operator.s = "/" ->
            IF a.num2.n = 0 THEN [fail |-> "", result |-> Str("Infinity")]
            ELSE [fail |-> "", result |-> Div(a.num1, a.num2)]
      [] OTHER -> [fail |-> BadOperatorMsg, result |-> Undef]

\* the switch: the computed number, or the failure it ends in
calcSwitch(a) ==
    CASE a.operator.s = "+" -> [fail |-> "", result |-> Add(a.num1, a.num2)]
      [] a.operator.s = "-" -> [fail |-> "", result |-> Sub(a.num1, a.num2)]
      [] a.operator.s = "*" -> [fail |-> "", result |-> Mul(a.num1, a.num2)]
      [] a.operator.s = "/" ->
            IF a.num2.n = 0 THEN [fail |-> DivZeroMsg, result |-> Undef]
            ELSE [fail |-> "", result |-> Div(a.num1, a.num2)]
      [] OTHER -> [fail |-> BadOperatorMsg, result |-> Undef]

CalculatorInline(a) ==
    LET sw == calcSwitch(a)
    IN IF sw.fail # "" THEN \* '오류: '
          Return(ErrorResult(<<"error: ", sw.fail, ".">>))
       ELSE Return(TextResult(calcText(a, sw.result)))

\* a handler whose thrown error does not say what went wrong
CalculatorThrowingGeneric(a) ==
    LET sw == calcSwitch(a)
    IN IF sw.fail # "" THEN Throw(<<"calculation failed", ".">>)
       ELSE Return(MirroredResult(calcText(a, sw.result)))

CalculatorThrowing(a) ==
    LET sw == calcSwitch(a)
    IN IF sw.fail # "" THEN Throw(<<sw.fail, ".">>)
       ELSE Return(MirroredResult(calcText(a, sw.result)))

(***************************************************************************)
(* getTime                                                                 *)
(***************************************************************************)
\* the zones the date-formatting facility (Intl.DateTimeFormat) recognises,
\* with their offset from UTC in hours
ZoneOffset == [z \in {"UTC", "Asia/Seoul", "America/New_York"} |->
                 CASE z = "UTC" -> 0 [] z = "Asia/Seoul" -> 9 [] OTHER -> -5]

Recognised(tz) == tz \in DOMAIN ZoneOffset

\* new Date(): the current instant, a day of December 2025 and an hour (UTC)
Instants == {[day |-> 15, hour |-> 3], [day |-> 15, hour |-> 20]}

Pad2(n) == IF n < 10 THEN "0" \o ToString(n) ELSE ToString(n)

\* formatter.format(now) for a recognised zone: ko-KR, 2-digit fields, 24 hours
formatTime(tz, now) ==
    LET h == now.hour + ZoneOffset[tz]
        day == IF h >= 24 THEN now.day + 1 ELSE IF h < 0 THEN now.day - 1 ELSE now.day
    IN <<"2025. 12. ", Pad2(day), ". ", Pad2(h % 24), ":00:00">>

\* `Timezone: ${timezone}\n현재 시간: ${formattedTime}`
timeText(a, now) ==
    <<"Timezone: ", Render(a.timezone), "\ncurrent time: ">> \o formatTime(a.timezone.s, now)

\* `유효하지 않은 timezone입니다: `
InvalidTimezoneMsg == "invalid timezone: "

\* a handler that falls back to UTC for a zone it does not know
GetTimeInlineFallback(a, now) ==
    IF Recognised(a.timezone.s)
    THEN Return(TextResult(timeText(a, now)))
    ELSE Return(TextResult(<<"Timezone: ", Render(a.timezone), "\ncurrent time: ">>
                           \o formatTime("UTC", now)))

GetTimeInline(a, now) ==
    IF Recognised(a.timezone.s)
    THEN Return(TextResult(timeText(a, now)))
    ELSE Return(ErrorResult(<<InvalidTimezoneMsg, Render(a.timezone)>>))

GetTimeThrowing(a, now) ==
    IF Recognised(a.timezone.s)
    THEN Return(MirroredResult(timeText(a, now)))
    \* `. IANA Timezone 형식을 사용해주세요 (예: Asia/Seoul, America/New_York).`
    ELSE Throw(<<InvalidTimezoneMsg, Render(a.timezone),
                 ". use the IANA timezone format (e.g. Asia/Seoul, America/New_York).">>)

(***************************************************************************)
(* Outbound HTTP.  A request is what the handler hands to fetch; a         *)
(* response is what fetch gives back: a rejection (transport error) or a   *)
(* status with a body.                                                     *)
(***************************************************************************)
Request(api, params, headers, token) ==
    [api |-> api, params |-> params, headers |-> headers, token |-> token]

\* the value of query parameter key, Undef when it is not sent
Param(req, key) ==
    IF \E i \in 1..Len(req.params) : req.params[i][1] = key
    THEN Str(req.params[CHOOSE i \in 1..Len(req.params) : req.params[i][1] = key][2])
    ELSE Undef

NoResponse == [kind |-> "none"]
\* fetch rejects: a TypeError with a message
TransportError == [kind |-> "neterr", message |-> "fetch failed"]
HttpResponse(status, statusText, body) ==
    [kind |-> "http", ok |-> (200 <= status /\ status <= 299), status |-> status,
     statusText |-> statusText, body |-> body]

\* error instanceof Error ? error.message : ... for what response.json() throws
JsonSyntaxError == "Unexpected token < in JSON"

\* '알 수 없는 오류' / '알 수 없는 오류가 발생했습니다.'
UnknownError == "unknown error"
\* `API 요청 실패: `
RequestFailedMsg == "API request failed: "

(***************************************************************************)
(* geocode                                                                 *)
(***************************************************************************)
\* String.prototype.toLowerCase / toUpperCase on the country codes of the model
toLowerCase(s) == CASE s = "KR" -> "kr" [] s = "Us" -> "us" [] OTHER -> s
toUpperCase(s) == CASE s = "kr" -> "KR" [] s = "jp" -> "JP" [] OTHER -> s

\* async ({ address, limit = 1, country })
geocodeLimit(a) == IF a.limit.t = "undefined" THEN Num(1) ELSE a.limit

\* a request that sends a Hugging Face token along
geocodeRequestWithToken(a) ==
    Request("nominatim",
            << <<"q", Render(a.address)>>, <<"format", "json">>,
               <<"limit", NumText(geocodeLimit(a))>>, <<"addressdetails", "1">> >>,
            << <<"User-Agent", "MCP-Geocode-Tool/1.0">>, <<"Accept", "application/json">> >>,
            Str("hf_env"))

\* the URLSearchParams and headers of the one GET
geocodeRequest(a) ==
    Request("nominatim",
            << <<"q", Render(a.address)>>, <<"format", "json">>,
               <<"limit", NumText(geocodeLimit(a))>>, <<"addressdetails", "1">> >>
            \o (IF Truthy(a.country)
                THEN << <<"countrycodes", toLowerCase(a.country.s)>> >> ELSE <<>>),
            << <<"User-Agent", "MCP-Geocode-Tool/1.0">>, <<"Accept", "application/json">> >>,
            Undef)

\* one match of the upstream's list
Match(display_name, lat, lon, importance, hasAddress, country_code, city, town, state, postcode) ==
    [display_name |-> display_name, lat |-> lat, lon |-> lon, importance |-> importance,
     hasAddress |-> hasAddress,
     address |-> [country_code |-> country_code, city |-> city, town |-> town,
                  village |-> Undef, state |-> state, postcode |-> postcode]]

Seoul == Match(Str("Seoul"), Str("37.5665"), Str("126.9780"), Rat(3, 4), TRUE,
               Str("kr"), Str("Seoul"), Undef, Undef, Str("04524"))
Busan == Match(Str("Busan"), Str("35.1796"), Str("129.0756"), Undef, TRUE,
               Undef, Undef, Str("Busan"), Str("Yeongnam"), Undef)
Matches == {Seoul, Busan,
            Match(Undef, Undef, Str("x"), Num(0), FALSE,
                  Undef, Undef, Undef, Undef, Undef)}

\* parseFloat(v) shown in a template literal
parseFloatText(v) ==
    IF v.t = "string" /\ v.s \in {"37.5665", "126.9780", "35.1796", "129.0756"}
    THEN v.s ELSE "NaN"

\* parseFloat(v).toFixed(4) of a number 0 <= v
toFixed4(v) ==
    LET scaled == (v.n * 10000) \div v.d
        frac == scaled % 10000
        digits == ToString(frac)
        zeros == CASE frac < 10 -> "000" [] frac < 100 -> "00" [] frac < 1000 -> "0" [] OTHER -> ""
    IN ToString(scaled \div 10000) \o "." \o zeros \o digits

\* `결과 `
ResultLabel == "result "
\* `주소 "`
AddressLabel == "address \""
\* `"에 대한 검색 결과가 없습니다.` / `에 대한 검색 결과를 찾을 수 없습니다.`
NoMatchMsg == ": no search results found."
\* `검색어: "`
QueryLabel == "query: \""
\* `Geocoding 오류: `
GeocodeErrMsg == "Geocoding error: "

\* arr.join(sep) of a list of texts
RECURSIVE join(_, _)
join(texts, sep) ==
    IF texts = <<>> THEN <<>>
    ELSE IF Len(texts) = 1 THEN texts[1]
    ELSE texts[1] \o <<sep>> \o join(Tail(texts), sep)

\* index.ts: the block of the match at index (counted from 1)
matchTextInline(m, index) ==
    <<ResultLabel, ToString(index), ":\naddress: ", Render(m.display_name),
      "\nlatitude: ", Render(m.lat), "\nlongitude: ", Render(m.lon)>>

\* part_000: the block of the match at index (counted from 1)
matchTextThrowing(m, index, a) ==
    LET displayName == IF Truthy(m.display_name) THEN m.display_name ELSE a.address
        importance == IF Truthy(m.importance) THEN toFixed4(m.importance) ELSE "N/A"
        countryCode == IF m.hasAddress /\ Truthy(m.address.country_code)
                       THEN toUpperCase(m.address.country_code.s) ELSE "N/A"
        addr == m.address
        place == IF Truthy(addr.city) THEN addr.city
                 ELSE IF Truthy(addr.town) THEN addr.town ELSE addr.village
        details == (IF Truthy(place) THEN << <<"city: ", Render(place)>> >> ELSE <<>>)
                   \o (IF Truthy(addr.state) THEN << <<"state: ", Render(addr.state)>> >> ELSE <<>>)
                   \o (IF Truthy(addr.postcode) THEN << <<"postcode: ", Render(addr.postcode)>> >> ELSE <<>>)
    IN <<ResultLabel, ToString(index), ":\naddress: ", Render(displayName),
         "\nlatitude: ", parseFloatText(m.lat), "\nlongitude: ", parseFloatText(m.lon),
         "\ncountry code: ", countryCode, "\nimportance: ", importance>>
       \o (IF m.hasAddress /\ details # <<>> THEN <<"\n">> \o join(details, ", ") ELSE <<>>)

\* a handler that reads the body without looking at response.ok
GeocodeInlineNoStatusCheck(a, resp) ==
    IF resp.kind = "neterr"
    THEN Return(ErrorResult(<<GeocodeErrMsg, resp.message>>))
    ELSE IF resp.body.json = "malformed"
    THEN Return(ErrorResult(<<GeocodeErrMsg, JsonSyntaxError>>))
    ELSE IF resp.body.json # "array" \/ Len(resp.body.items) = 0
    THEN Return(TextResult(<<AddressLabel, Render(a.address), "\"", NoMatchMsg>>))
    ELSE LET data == resp.body.items
             results == join([i \in 1..Len(data) |-> matchTextInline(data[i], i)], "\n\n")
         IN Return(TextResult(<<QueryLabel, Render(a.address), "\"\n\n">> \o results))

\* index.ts: what the handler does with the upstream's answer
GeocodeInline(a, resp) ==
    IF resp.kind = "neterr"
    THEN Return(ErrorResult(<<GeocodeErrMsg, resp.message>>))
    ELSE IF ~resp.ok
    THEN Return(ErrorResult(<<RequestFailedMsg, ToString(resp.status)>>))
    ELSE IF resp.body.json = "malformed"
    THEN Return(ErrorResult(<<GeocodeErrMsg, JsonSyntaxError>>))
    ELSE IF resp.body.json # "array" \/ Len(resp.body.items) = 0
    THEN Return(TextResult(<<AddressLabel, Render(a.address), "\"", NoMatchMsg>>))
    ELSE LET data == resp.body.items
             results == join([i \in 1..Len(data) |-> matchTextInline(data[i], i)], "\n\n")
         IN Return(TextResult(<<QueryLabel, Render(a.address), "\"\n\n">> \o results))

\* a handler that treats an empty answer as a failure
GeocodeThrowingStrict(a, resp) ==
    IF resp.kind = "neterr"
    THEN Throw(<<GeocodeErrMsg, resp.message>>)
    ELSE IF ~resp.ok
    THEN Throw(<<GeocodeErrMsg, RequestFailedMsg, ToString(resp.status), " ", resp.statusText>>)
    ELSE IF resp.body.json = "malformed"
    THEN Throw(<<GeocodeErrMsg, JsonSyntaxError>>)
    ELSE IF resp.body.json # "array" \/ Len(resp.body.items) = 0
    THEN Throw(<<GeocodeErrMsg, AddressLabel, Render(a.address), "\"", NoMatchMsg>>)
    ELSE LET data == resp.body.items
             results == join([i \in 1..Len(data) |-> matchTextThrowing(data[i], i, a)], "\n\n")
             countryInfo == IF Truthy(a.country)
                            THEN <<" (country filter: ", Render(a.country), ")">> ELSE <<>>
         IN Return(MirroredResult(<<QueryLabel, Render(a.address), "\"">> \o countryInfo
                                  \o <<"\n\n">> \o results))

\* part_000: what the handler does with the upstream's answer; the catch
\* wraps whatever the try block threw
GeocodeThrowing(a, resp) ==
    IF resp.kind = "neterr"
    THEN Throw(<<GeocodeErrMsg, resp.message>>)
    ELSE IF ~resp.ok
    THEN Throw(<<GeocodeErrMsg, RequestFailedMsg, ToString(resp.status), " ", resp.statusText>>)
    ELSE IF resp.body.json = "malformed"
    THEN Throw(<<GeocodeErrMsg, JsonSyntaxError>>)
    ELSE IF resp.body.json # "array" \/ Len(resp.body.items) = 0
    THEN LET countryMsg == IF Truthy(a.country)
                           THEN <<" (country: ", Render(a.country), ")">> ELSE <<>>
         IN Return(MirroredResult(<<AddressLabel, Render(a.address), "\"">> \o countryMsg
                                  \o <<NoMatchMsg>>))
    ELSE LET data == resp.body.items
             results == join([i \in 1..Len(data) |-> matchTextThrowing(data[i], i, a)], "\n\n")
             countryInfo == IF Truthy(a.country)
                            THEN <<" (country filter: ", Render(a.country), ")">> ELSE <<>>
         IN Return(MirroredResult(<<QueryLabel, Render(a.address), "\"">> \o countryInfo
                                  \o <<"\n\n">> \o results))

(***************************************************************************)
(* get-weather                                                             *)
(***************************************************************************)
\* the WMO weather code table
weatherCodes ==
    [c \in {0, 1, 2, 3, 45, 48, 51, 53, 55, 56, 57, 61, 63, 65, 66, 67, 71, 73, 75,
            77, 80, 81, 82, 85, 86, 95, 96, 99} |->
        CASE c = 0 -> "(sun) clear"
          [] c = 1 -> "(sun-cloud) mainly clear"
          [] c = 2 -> "(part-cloud) partly cloudy"
          [] c = 3 -> "(cloud) overcast"
          [] c = 45 -> "(fog) fog"
          [] c = 48 -> "(fog) rime fog"
          [] c = 51 -> "(drizzle) light drizzle"
          [] c = 53 -> "(drizzle) moderate drizzle"
          [] c = 55 -> "(drizzle) dense drizzle"
          [] c \in {56, 66} -> "(sleet) light sleet"
          [] c \in {57, 67} -> "(sleet) heavy sleet"
          [] c = 61 -> "(rain) slight rain"
          [] c = 63 -> "(rain) moderate rain"
          [] c = 65 -> "(rain) heavy rain"
          [] c = 71 -> "(snow) slight snow"
          [] c = 73 -> "(snow) moderate snow"
          [] c = 75 -> "(snow) heavy snow"
          [] c = 77 -> "(snow) snow grains"
          [] c = 80 -> "(shower) slight showers"
          [] c = 81 -> "(shower) moderate showers"
          [] c = 82 -> "(shower) violent showers"
          [] c = 85 -> "(snow-shower) slight snow showers"
          [] c = 86 -> "(snow-shower) heavy snow showers"
          [] c = 95 -> "(thunder) thunderstorm"
          [] c = 96 -> "(thunder) thunderstorm with hail"
          [] OTHER -> "(thunder) thunderstorm with heavy hail"]

\* `날씨 코드: `
WeatherCodeLabel == "weather code: "

\* a lookup that takes code 0 for no code
getWeatherDescriptionFalsyZero(code) ==
    IF code.t = "number" /\ code.d = 1 /\ code.n # 0 /\ code.n \in DOMAIN weatherCodes
    THEN weatherCodes[code.n]
    ELSE WeatherCodeLabel \o Render(code)

\* weatherCodes[code] || `날씨 코드: ${code}`
getWeatherDescription(code) ==
    IF code.t = "number" /\ code.d = 1 /\ code.n \in DOMAIN weatherCodes
    THEN weatherCodes[code.n]
    ELSE WeatherCodeLabel \o Render(code)

\* part_000 shows at most this many hourly entries
HoursShown == 24

\* a series of the payload: an array, or no such key
Series(vals) == [present |-> TRUE, vals |-> vals]
NoSeries == [present |-> FALSE, vals |-> <<>>]
\* series?.[i], i counted from 1
At(series, i) ==
    IF series.present /\ i <= Len(series.vals) THEN series.vals[i] ELSE Undef

\* the upstream's dates and hours
IsoDate(k) == "2025-12-" \o Pad2(14 + k)
IsoHour(k) == IsoDate(1 + ((k - 1) \div 24)) \o "T" \o Pad2((k - 1) % 24) \o ":00"

\* new Date(s).toLocaleDateString('ko-KR', { month: 'long', day: 'numeric', weekday: 'short' })
toLocaleDateString(v) ==
    IF v.t = "string" /\ \E k \in 1..16 : v.s = IsoDate(k)
    THEN LET k == CHOOSE k \in 1..16 : v.s = IsoDate(k)
         IN "12-wol " \o ToString(14 + k) \o "-il ("
            \o <<"mon", "tue", "wed", "thu", "fri", "sat", "sun">>[1 + ((k - 1) % 7)] \o ")"
    ELSE "Invalid Date"

\* new Date(s).toLocaleString('ko-KR', { month: 'short', day: 'numeric', hour: '2-digit', minute: '2-digit' })
toLocaleString(v) ==
    IF v.t = "string" /\ \E k \in 1..48 : v.s = IsoHour(k)
    THEN LET k == CHOOSE k \in 1..48 : v.s = IsoHour(k)
         IN "12. " \o ToString(15 + ((k - 1) \div 24)) \o ". " \o Pad2((k - 1) % 24) \o ":00"
    ELSE "Invalid Date"

\* the parsed body of a forecast response.  detail "full": every field the
\* request asked for; "sparse": fields and series missing or short
WeatherData(detail, error, reason, hasDaily, days, hasHourly, hours) ==
    LET full == detail = "full"
    IN [error |-> error, reason |-> reason,
        timezone |-> IF full THEN Str("Asia/Seoul") ELSE Undef,
        elevation |-> IF full THEN Num(38) ELSE Undef,
        hasCurrent |-> TRUE,
        current_weather |->
            [temperature |-> Num(3),
             weather_code |-> IF full THEN Num(0) ELSE Undef,
             wind_speed |-> IF full THEN Num(12) ELSE Undef,
             wind_direction |-> Num(270),
             time |-> Str(IsoHour(4))],
        hasDaily |-> hasDaily,
        daily |->
            [time |-> Series([i \in 1..days |-> Str(IsoDate(i))]),
             temperature_2m_max |-> Series([i \in 1..days |-> Num(5 + i)]),
             temperature_2m_min |->
                 IF full THEN Series([i \in 1..days |-> Num(i - 3)])
                 ELSE Series([i \in 1..(days - 1) |-> Num(i - 3)]),
             precipitation_sum |->
                 IF full THEN Series([i \in 1..days |-> Num(i - 1)]) ELSE NoSeries,
             weather_code |-> Series([i \in 1..days |-> Num(IF full THEN 61 ELSE 4)]),
             wind_speed_10m_max |->
                 IF full THEN Series([i \in 1..days |-> Num(20)]) ELSE NoSeries],
        hasHourly |-> hasHourly,
        hourly |->
            [time |-> Series([i \in 1..hours |-> Str(IsoHour(i))]),
             temperature_2m |-> Series([i \in 1..hours |-> Num(i % 5)]),
             relative_humidity_2m |->
                 IF full THEN Series([i \in 1..hours |-> Num(60)]) ELSE NoSeries,
             precipitation |->
                 IF full THEN Series([i \in 1..hours |-> Num(i % 2)])
                 ELSE Series([i \in 1..(hours - 1) |-> Num(0)]),
             wind_speed_10m |-> Series([i \in 1..hours |-> Num(7)]),
             wind_direction_10m |->
                 IF full THEN Series([i \in 1..hours |-> Num(90)]) ELSE NoSeries,
             weather_code |-> Series([i \in 1..hours |-> Num(IF i % 2 = 0 THEN 3 ELSE 100)])]]

\* a payload without current_weather, daily and hourly
BareData == [WeatherData("sparse", Undef, Undef, FALSE, 0, FALSE, 0) EXCEPT !.hasCurrent = FALSE]

Min(x, y) == IF x < y THEN x ELSE y

\* async ({ latitude, longitude, forecast_days = 7, timezone })
forecastDays(a) == IF a.forecast_days.t = "undefined" THEN Num(7) ELSE a.forecast_days

weatherRequest(v, a) ==
    Request("open-meteo",
            << <<"latitude", NumText(a.latitude)>>, <<"longitude", NumText(a.longitude)>>,
               <<"forecast_days", NumText(forecastDays(a))>>, <<"current_weather", "true">> >>
            \o (IF v = "inline"
                THEN << <<"daily", "temperature_2m_max,temperature_2m_min,precipitation_sum,weather_code">> >>
                ELSE << <<"hourly", "temperature_2m,relative_humidity_2m,precipitation,wind_speed_10m,wind_direction_10m,weather_code">>,
                        <<"daily", "temperature_2m_max,temperature_2m_min,precipitation_sum,weather_code,wind_speed_10m_max">> >>
                     \o (IF Truthy(a.timezone) THEN << <<"timezone", a.timezone.s>> >> ELSE <<>>)),
            IF v = "inline" THEN <<>> ELSE << <<"Accept", "application/json">> >>,
            Undef)

\* `📍 위치: 위도 ${latitude}, 경도 ${longitude}\n`
locationLine(a) ==
    <<"location: latitude ", Render(a.latitude), ", longitude ", Render(a.longitude), "\n">>

\* flatten a list of texts
RECURSIVE concat(_)
concat(texts) == IF texts = <<>> THEN <<>> ELSE texts[1] \o concat(Tail(texts))

\* a report whose daily loop runs over every day the upstream returned
reportInlineAllDays(a, data) ==
    LET fd == forecastDays(a).n
        current == data.current_weather
        dayLine(i) == <<Render(At(data.daily.time, i)), ": ",
                        Render(At(data.daily.temperature_2m_min, i)), " C ~ ",
                        Render(At(data.daily.temperature_2m_max, i)), " C\n">>
    IN locationLine(a) \o <<"\n">>
       \o (IF data.hasCurrent
           THEN <<"current weather\n", "temperature: ", Render(current.temperature), " C\n",
                  "wind speed: ", Render(current.wind_speed), " km/h\n\n">>
           ELSE <<>>)
       \o (IF data.hasDaily /\ data.daily.time.present
           THEN <<"forecast days: ", ToString(fd), "\n">>
                \o concat([i \in 1..Len(data.daily.time.vals) |-> dayLine(i)])
           ELSE <<>>)

\* index.ts: the report built from the parsed body
reportInline(a, data) ==
    LET fd == forecastDays(a).n
        current == data.current_weather
        dayLine(i) == <<Render(At(data.daily.time, i)), ": ",
                        Render(At(data.daily.temperature_2m_min, i)), " C ~ ",
                        Render(At(data.daily.temperature_2m_max, i)), " C\n">>
    IN locationLine(a) \o <<"\n">>
       \o (IF data.hasCurrent
           THEN <<"current weather\n", "temperature: ", Render(current.temperature), " C\n",
                  "wind speed: ", Render(current.wind_speed), " km/h\n\n">>
           ELSE <<>>)
       \o (IF data.hasDaily /\ data.daily.time.present
           THEN <<"forecast days: ", ToString(fd), "\n">>
                \o concat([i \in 1..Min(Len(data.daily.time.vals), fd) |-> dayLine(i)])
           ELSE <<>>)

\* `날씨 조회 오류: ` (index.ts) and `날씨 정보 조회 오류: ` (part_000)
WeatherErrInline == "weather lookup error: "
WeatherErrThrowing == "weather information lookup error: "
\* `API 오류: `
ApiErrorMsg == "API error: "
\* what reading a property of null throws
NullTypeError == "Cannot read properties of null"

\* index.ts: what the handler does with the upstream's answer
WeatherInline(a, resp) ==
    IF resp.kind = "neterr"
    THEN Return(ErrorResult(<<WeatherErrInline, resp.message>>))
    ELSE IF ~resp.ok
    THEN Return(ErrorResult(<<RequestFailedMsg, ToString(resp.status)>>))
    ELSE IF resp.body.json = "malformed"
    THEN Return(ErrorResult(<<WeatherErrInline, JsonSyntaxError>>))
    ELSE IF resp.body.json = "null"
    THEN Return(ErrorResult(<<WeatherErrInline, NullTypeError>>))
    ELSE Return(TextResult(reportInline(a, resp.body.data)))

\* `━━━━━━━━━━━━━━━━━━━━━━━━━━━━━━━━━━━━━━━━\n`
Rule == "----------------------------------------\n"

Defined(v) == v.t # "undefined"

\* part_000: one entry of the daily block, i counted from 1
dailyEntry(data, i) ==
    LET dateStr == toLocaleDateString(At(data.daily.time, i))
        maxTemp == At(data.daily.temperature_2m_max, i)
        minTemp == At(data.daily.temperature_2m_min, i)
        precip == At(data.daily.precipitation_sum, i)
        weatherCode == At(data.daily.weather_code, i)
        windSpeed == At(data.daily.wind_speed_10m_max, i)
        weatherDesc == IF Defined(weatherCode) THEN getWeatherDescription(weatherCode) ELSE "N/A"
    IN <<dateStr, "\n">>
       \o (IF Defined(maxTemp) /\ Defined(minTemp)
           THEN <<"  temperature: ", Render(minTemp), " C ~ ", Render(maxTemp), " C\n">> ELSE <<>>)
       \o (IF Defined(weatherCode) THEN <<"  weather: ", weatherDesc, "\n">> ELSE <<>>)
       \o (IF Defined(precip) THEN <<"  precipitation: ", Render(precip), "mm\n">> ELSE <<>>)
       \o (IF Defined(windSpeed) THEN <<"  max wind speed: ", Render(windSpeed), " km/h\n">> ELSE <<>>)
       \o <<"\n">>

\* an entry that shows the precipitation of every hour that has one, zero too
hourlyEntryEveryPrecip(data, i) ==
    LET timeStr == toLocaleString(At(data.hourly.time, i))
        temp == At(data.hourly.temperature_2m, i)
        humidity == At(data.hourly.relative_humidity_2m, i)
        precip == At(data.hourly.precipitation, i)
        windSpeed == At(data.hourly.wind_speed_10m, i)
        windDir == At(data.hourly.wind_direction_10m, i)
        weatherCode == At(data.hourly.weather_code, i)
    IN <<timeStr, "\n">>
       \o (IF Defined(temp) THEN <<"  temperature ", Render(temp), " C">> ELSE <<>>)
       \o (IF Defined(humidity) THEN <<" | humidity: ", Render(humidity), "%">> ELSE <<>>)
       \o (IF Defined(precip) THEN <<" | precipitation: ", Render(precip), "mm">> ELSE <<>>)
       \o (IF Defined(windSpeed) THEN <<" | wind speed: ", Render(windSpeed), " km/h">> ELSE <<>>)
       \o (IF Defined(windDir) THEN <<" (", Render(windDir), " deg)">> ELSE <<>>)
       \o (IF Defined(weatherCode) THEN <<" | ", getWeatherDescription(weatherCode)>> ELSE <<>>)
       \o <<"\n">>

\* part_000: one entry of the hourly block, i counted from 1
hourlyEntry(data, i) ==
    LET timeStr == toLocaleString(At(data.hourly.time, i))
        temp == At(data.hourly.temperature_2m, i)
        humidity == At(data.hourly.relative_humidity_2m, i)
        precip == At(data.hourly.precipitation, i)
        windSpeed == At(data.hourly.wind_speed_10m, i)
        windDir == At(data.hourly.wind_direction_10m, i)
        weatherCode == At(data.hourly.weather_code, i)
    IN <<timeStr, "\n">>
       \o (IF Defined(temp) THEN <<"  temperature ", Render(temp), " C">> ELSE <<>>)
       \o (IF Defined(humidity) THEN <<" | humidity: ", Render(humidity), "%">> ELSE <<>>)
       \o (IF Defined(precip) /\ precip.t = "number" /\ precip.n > 0
           THEN <<" | precipitation: ", Render(precip), "mm">> ELSE <<>>)
       \o (IF Defined(windSpeed) THEN <<" | wind speed: ", Render(windSpeed), " km/h">> ELSE <<>>)
       \o (IF Defined(windDir) THEN <<" (", Render(windDir), " deg)">> ELSE <<>>)
       \o (IF Defined(weatherCode) THEN <<" | ", getWeatherDescription(weatherCode)>> ELSE <<>>)
       \o <<"\n">>

\* part_000: the report built from the parsed body
reportThrowing(a, data) ==
    LET fd == forecastDays(a).n
        current == data.current_weather
    IN locationLine(a)
       \o (IF Truthy(data.timezone) THEN <<"timezone: ", Render(data.timezone), "\n">> ELSE <<>>)
       \o (IF Defined(data.elevation) THEN <<"elevation: ", Render(data.elevation), "m\n">> ELSE <<>>)
       \o <<"\n">>
       \o (IF data.hasCurrent
           THEN <<"current weather\n", Rule,
                  "temperature: ", Render(current.temperature), " C\n",
                  "weather: ", getWeatherDescription(current.weather_code),
                  " (code: ", Render(current.weather_code), ")\n",
                  "wind speed: ", Render(current.wind_speed), " km/h\n",
                  "wind direction: ", Render(current.wind_direction), " deg\n",
                  "time: ", Render(current.time), "\n", "\n">>
           ELSE <<>>)
       \o (IF data.hasDaily /\ data.daily.time.present
           THEN <<"daily forecast, days: ", ToString(fd), "\n", Rule>>
                \o concat([i \in 1..Min(Len(data.daily.time.vals), fd) |-> dailyEntry(data, i)])
           ELSE <<>>)
       \o (IF data.hasHourly /\ data.hourly.time.present
           THEN <<"hourly forecast, next 24 hours\n", Rule>>
                \o concat([i \in 1..Min(HoursShown, Len(data.hourly.time.vals)) |-> hourlyEntry(data, i)])
           ELSE <<>>)

\* a handler that throws, except for a non-success status, which it returns
WeatherThrowingMixed(a, resp) ==
    IF resp.kind = "neterr"
    THEN Throw(<<WeatherErrThrowing, resp.message>>)
    ELSE IF ~resp.ok
    THEN Return(ErrorResult(<<RequestFailedMsg, ToString(resp.status)>>))
    ELSE IF resp.body.json = "malformed"
    THEN Throw(<<WeatherErrThrowing, JsonSyntaxError>>)
    ELSE IF resp.body.json = "null"
    THEN Throw(<<WeatherErrThrowing, NullTypeError>>)
    ELSE IF Truthy(resp.body.data.error)
    THEN Throw(<<WeatherErrThrowing, ApiErrorMsg,
                 IF Truthy(resp.body.data.reason) THEN Render(resp.body.data.reason)
                 ELSE UnknownError>>)
    ELSE Return(MirroredResult(reportThrowing(a, resp.body.data)))

\* part_000: what the handler does with the upstream's answer; the catch
\* wraps whatever the try block threw
WeatherThrowing(a, resp) ==
    IF resp.kind = "neterr"
    THEN Throw(<<WeatherErrThrowing, resp.message>>)
    ELSE IF ~resp.ok
    THEN Throw(<<WeatherErrThrowing, RequestFailedMsg, ToString(resp.status), " ", resp.statusText>>)
    ELSE IF resp.body.json = "malformed"
    THEN Throw(<<WeatherErrThrowing, JsonSyntaxError>>)
    ELSE IF resp.body.json = "null"
    THEN Throw(<<WeatherErrThrowing, NullTypeError>>)
    ELSE IF Truthy(resp.body.data.error)
    THEN Throw(<<WeatherErrThrowing, ApiErrorMsg,
                 IF Truthy(resp.body.data.reason) THEN Render(resp.body.data.reason)
                 ELSE UnknownError>>)
    ELSE Return(MirroredResult(reportThrowing(a, resp.body.data)))

(***************************************************************************)
(* generate-image                                                          *)
(***************************************************************************)
\* 'HF_TOKEN 환경 변수가 설정되지 않았습니다.'
MissingTokenMsg == "the HF_TOKEN environment variable is not set."
\* `이미지 생성 오류: `
ImageErrMsg == "image generation error: "

\* index.ts: process.env.HF_TOKEN, read by the handler
credentialInline(config, env) == env
\* part_000: config?.hfToken || process.env.HF_TOKEN, read at construction
credentialThrowing(config, env) == IF Truthy(config) THEN config ELSE env

\* hfClient.textToImage({ provider, model, inputs, parameters })
imageRequest(v, a, token) ==
    Request("hf-inference",
            << <<"provider", IF v = "inline" THEN "hf-inference" ELSE "auto">>,
               <<"model", "black-forest-labs/FLUX.1-schnell">>,
               <<"inputs", Render(a.prompt)>>,
               <<"num_inference_steps", "5">> >>,
            <<>>, token)

\* Buffer.from(arrayBuffer).toString('base64'): the 6-bit digits of the
\* bytes, 64 standing for the padding character '='
RECURSIVE base64(_)
base64(bytes) ==
    IF bytes = <<>> THEN <<>>
    ELSE IF Len(bytes) = 1
    THEN <<bytes[1] \div 4, (bytes[1] % 4) * 16, 64, 64>>
    ELSE IF Len(bytes) = 2
    THEN <<bytes[1] \div 4, (bytes[1] % 4) * 16 + bytes[2] \div 16, (bytes[2] % 16) * 4, 64>>
    ELSE <<bytes[1] \div 4, (bytes[1] % 4) * 16 + bytes[2] \div 16,
           (bytes[2] % 16) * 4 + bytes[3] \div 64, bytes[3] % 64>>
         \o base64(SubSeq(bytes, 4, Len(bytes)))

\* what the inference call gives back: a Blob, or it throws
Blob(bytes) == [kind |-> "blob", bytes |-> bytes]
InferenceError(isError, message) == [kind |-> "hferr", isError |-> isError, message |-> message]

\* error instanceof Error ? error.message : '알 수 없는 오류'
errorMessage(resp) == IF resp.isError THEN resp.message ELSE UnknownError

\* index.ts: the handler up to its first await: without a token it returns
GenerateImageStartInline(a, token) ==
    IF ~Truthy(token) THEN Return(ErrorResult(<<MissingTokenMsg>>))
    ELSE [kind |-> "await", result |-> NoResult, message |-> <<>>]

\* part_000: the handler up to its first await: it always calls the client
GenerateImageStartThrowing(a, token) ==
    [kind |-> "await", result |-> NoResult, message |-> <<>>]

\* a handler whose catch block returns no content
GenerateImageInlineEmptyError(a, resp) ==
    IF resp.kind = "blob"
    THEN Return([content |-> <<ImageBlock(base64(resp.bytes))>>, isError |-> FALSE,
                 structuredContent |-> <<>>])
    ELSE Return([content |-> <<>>, isError |-> TRUE, structuredContent |-> <<>>])

GenerateImageInline(a, resp) ==
    IF resp.kind = "blob"
    THEN Return([content |-> <<ImageBlock(base64(resp.bytes))>>, isError |-> FALSE,
                 structuredContent |-> <<>>])
    ELSE Return(ErrorResult(<<ImageErrMsg, errorMessage(resp)>>))

GenerateImageThrowing(a, resp) ==
    IF resp.kind = "blob"
    THEN Return([content |-> <<ImageBlock(base64(resp.bytes))>>, isError |-> FALSE,
                 structuredContent |-> <<>>])
    \* `. HF_TOKEN 환경 변수가 설정되어 있는지 확인해주세요.`
    ELSE Throw(<<ImageErrMsg, errorMessage(resp),
                 ". check that the HF_TOKEN environment variable is set.">>)

(***************************************************************************)
(* The code-review prompt (part_000).  A string is a sequence of pieces;   *)
(* the pieces that matter to String.prototype.replace are pieces of their  *)
(* own: the placeholder, the review-code marker and the replacement        *)
(* patterns $$, $&, $` and $'.                                             *)
(***************************************************************************)
\* `{code}`
CodePlaceholder == "{code}"
\* `**리뷰할 코드:**`
ReviewMarker == "**code to review:**"
\* `**프로그래밍 언어:** `
LanguageLabel == "**programming language:** "
\* `**코드 맥락/목적:**\n`
ContextLabel == "**code context/purpose:**\n"

\* CODE_REVIEW_PROMPT_TEMPLATE: the six review items, the marker, the
\* fenced placeholder and the closing request (~~~ stands for the fence
\* of three backticks)
CODE_REVIEW_PROMPT_TEMPLATE ==
    <<"please review the following code (items 1 to 6)\n\n---\n\n", ReviewMarker,
      "\n\n~~~\n", CodePlaceholder, "\n~~~\n\n---\n\n",
      "please write a detailed code review along these items.">>

\* an argument of the prompt: a string, or left out
Omitted == [given |-> FALSE, text |-> <<>>]
Text(t) == [given |-> TRUE, text |-> t]
\* if (language), if (context)
TruthyText(arg) == arg.given /\ arg.text # <<>>

\* what a replacement string stands for: $$ is a dollar sign, $& the
\* matched text, $` (written "$<" here) the text before the match, $' the
\* text after it
RECURSIVE expand(_, _, _, _)
expand(replacement, matched, before, after) ==
    IF replacement = <<>> THEN <<>>
    ELSE LET piece == Head(replacement)
             shown == CASE piece = "$$" -> <<"$">>
                        [] piece = "$&" -> <<matched>>
                        [] piece = "$<" -> before
                        [] piece = "$'" -> after
                        [] OTHER -> <<piece>>
         IN shown \o expand(Tail(replacement), matched, before, after)

\* str.replace(pattern, replacement) with a string pattern: the first
\* occurrence only, the replacement's patterns expanded
replace(str, pattern, replacement) ==
    IF \A i \in 1..Len(str) : str[i] # pattern THEN str
    ELSE LET at == CHOOSE i \in 1..Len(str) :
                       str[i] = pattern /\ \A j \in 1..(i - 1) : str[j] # pattern
             before == SubSeq(str, 1, at - 1)
             after == SubSeq(str, at + 1, Len(str))
         IN before \o expand(replacement, pattern, before, after) \o after

\* the prompt handler: ({ code, language, context }) => { messages: [...] }
codeReviewPrompt(code, language, context) ==
    LET withCode == replace(CODE_REVIEW_PROMPT_TEMPLATE, CodePlaceholder, code.text)
        withLanguage ==
            IF TruthyText(language)
            THEN replace(withCode, ReviewMarker,
                         <<LanguageLabel>> \o language.text \o <<"\n\n", ReviewMarker>>)
            ELSE withCode
        prompt ==
            IF TruthyText(context)
            THEN replace(withLanguage, ReviewMarker,
                         <<ContextLabel>> \o context.text \o <<"\n\n", ReviewMarker>>)
            ELSE withLanguage
    IN <<[role |-> "user", content |-> [type |-> "text", text |-> prompt]]>>

(***************************************************************************)
(* The server: one build (variant) with its configuration and              *)
(* environment, and the invocations in flight, one per slot.               *)
(***************************************************************************)
VARIABLES variant, config, env, clients, inv, described, reviewed

vars == <<variant, config, env, clients, inv, described, reviewed>>

Variants == {"inline", "throwing"}
Slots == {1, 2}

\* config.hfToken and process.env.HF_TOKEN
ConfigTokens == {Undef, Str("hf_config")}
EnvTokens == {Undef, Str(""), Str("hf_env")}

\* the last weather code put to getWeatherDescription and what it returned
NoDescription == [code |-> Undef, text |-> "", called |-> FALSE]

\* the last call of the code-review prompt and the messages it returned
NoReview == [called |-> FALSE, code |-> Omitted, language |-> Omitted, context |-> Omitted,
             messages |-> <<>>]

Idle == [pc |-> "idle", tool |-> "", raw |-> EmptyBag, args |-> EmptyBag,
         entered |-> FALSE, sent |-> <<>>, resp |-> NoResponse, parsed |-> FALSE,
         result |-> NoResult]

\* a bag with the given fields set
Bag1(f1, v1) == [EmptyBag EXCEPT ![f1] = v1]
Bag2(f1, v1, f2, v2) == [EmptyBag EXCEPT ![f1] = v1, ![f2] = v2]
Bag3(f1, v1, f2, v2, f3, v3) == [EmptyBag EXCEPT ![f1] = v1, ![f2] = v2, ![f3] = v3]
Bag4(f1, v1, f2, v2, f3, v3, f4, v4) ==
    [EmptyBag EXCEPT ![f1] = v1, ![f2] = v2, ![f3] = v3, ![f4] = v4]

\* the argument bags a caller sends, well-formed and not
GreetBags ==
    {Bag2("name", n, "language", l) :
        n \in {Str("Tom"), Str("")}, l \in {Undef, Str("ko"), Str("en")}}
    \cup {Bag1("language", Str("ko")), Bag1("name", Num(7)),
          Bag2("name", Str("Tom"), "language", Str("fr"))}

\* the calculator is passed the numbers n/d within the bounds
CalculatorBags ==
    LET Numbers == {Rat(n, d) : n \in -MaxNum..MaxNum, d \in 1..MaxDen}
    IN
    {Bag3("num1", x, "num2", y, "operator", Str(o)) :
        x \in Numbers, y \in Numbers, o \in {"+", "-", "*", "/"}}
    \cup {Bag3("num1", Num(1), "num2", Num(0), "operator", Str("%")),
          Bag3("num1", Str("1"), "num2", Num(0), "operator", Str("/")),
          Bag2("num1", Num(1), "operator", Str("/"))}

GetTimeBags ==
    {Bag1("timezone", z) :
        z \in {Str("UTC"), Str("Asia/Seoul"), Str("America/New_York"),
               Str("Mars/Phobos"), Str(""), Num(9), Undef}}

GeocodeBags ==
    {Bag3("address", a, "limit", l, "country", c) :
        a \in {Str("Seoul")},
        l \in {Undef} \cup {Num(k) : k \in 0..11} \cup {Rat(3, 2), Str("2")},
        c \in {Undef, Str("KR")}}
    \cup {Bag1("limit", Num(2)), Bag1("address", Str("")),
          Bag2("address", Str("Seoul"), "country", Num(82))}

WeatherBags ==
    {Bag4("latitude", Num(37), "longitude", lon, "forecast_days", fd, "timezone", tz) :
        lon \in {Num(127), Num(-180)},
        fd \in {Undef} \cup {Num(k) : k \in 0..17} \cup {Rat(5, 2)},
        tz \in {Undef, Str("Asia/Seoul")}}
    \cup {Bag2("latitude", Num(91), "longitude", Num(0)),
          Bag2("latitude", Num(-91), "longitude", Num(0)),
          Bag2("latitude", Num(0), "longitude", Num(181)),
          Bag2("latitude", Num(0), "longitude", Num(-181)),
          Bag2("latitude", Rat(-181, 2), "longitude", Rat(1, 2)),
          Bag2("latitude", Rat(-179, 2), "longitude", Rat(1, 2)),
          Bag1("latitude", Num(0)),
          Bag2("latitude", Str("37"), "longitude", Num(127))}

GenerateImageBags == {Bag1("prompt", p) : p \in {Str("a cat"), Str(""), Undef, Num(3)}}

\* what the upstreams answer
GeocodeResponses ==
    {TransportError}
    \cup {HttpResponse(st[1], st[2], [json |-> "array", items |-> <<Seoul, Busan>>]) :
            st \in {<<404, "Not Found">>, <<500, "Internal Server Error">>}}
    \cup {HttpResponse(200, "OK", [json |-> "array", items |-> l]) : l \in UNION {[1..n -> Matches] : n \in 0..MaxResults}}
    \cup {HttpResponse(200, "OK", [json |-> j, items |-> <<>>]) :
            j \in {"object", "null", "malformed"}}

WeatherPayloads ==
    {WeatherData(dt, Undef, Undef, TRUE, d, h > 0, h) :
        dt \in {"full", "sparse"}, d \in 0..MaxDays, h \in {0, 2, MaxHours}}
    \cup {BareData,
          WeatherData("full", Undef, Undef, FALSE, 0, TRUE, 1),
          WeatherData("sparse", Bool(TRUE), Str("Latitude must be in range of -90 to 90"),
                      FALSE, 0, FALSE, 0),
          WeatherData("full", Bool(TRUE), Str("Bad request"), TRUE, 2, TRUE, 2),
          WeatherData("sparse", Bool(TRUE), Undef, FALSE, 0, FALSE, 0)}

WeatherResponses ==
    {TransportError}
    \cup {HttpResponse(st[1], st[2],
                       [json |-> "object", data |-> WeatherData("full", Undef, Undef, TRUE, 2, TRUE, 2)]) :
            st \in {<<400, "Bad Request">>, <<503, "Service Unavailable">>}}
    \cup {HttpResponse(200, "OK", [json |-> "object", data |-> p]) : p \in WeatherPayloads}
    \cup {HttpResponse(200, "OK", [json |-> j, data |-> BareData]) : j \in {"null", "malformed"}}

ImageResponses ==
    {Blob(<<>>), Blob(<<137>>), Blob(<<137, 80>>), Blob(<<137, 80, 78, 71>>),
     InferenceError(TRUE, "401 Unauthorized"), InferenceError(TRUE, "fetch failed"),
     InferenceError(FALSE, "")}

\* response.ok was true and the handler went on to await response.json()
jsonCalled(resp) == resp.kind = "http" /\ resp.ok

\* a schema violation, as the dispatcher reports it: the handler is not run
ValidationError(fields) ==
    ErrorResult(<<"validation error: ", CHOOSE f \in fields : TRUE>>)

Init ==
    /\ variant \in Variants
    \* index.ts: createServer() takes no configuration
    /\ config \in (IF variant = "inline" THEN {Undef} ELSE ConfigTokens)
    /\ env \in EnvTokens
    /\ clients = {1}
    /\ inv = [s \in Slots |-> Idle]
    /\ described = NoDescription
    /\ reviewed = NoReview

\* the dispatcher takes rawArgs for tool: the parsed bag and where the
\* invocation stands once outcome, the handler's first stretch, is known
Entered(tool, raw, args) ==
    [Idle EXCEPT !.tool = tool, !.raw = raw, !.args = args, !.entered = TRUE]

Finished(rec, outcome) == [rec EXCEPT !.pc = "done", !.result = ToolResult(outcome)]

Awaiting(rec, req) == [rec EXCEPT !.pc = "awaiting", !.sent = Append(rec.sent, req)]

\* rawArgs violates the schema: a validation error, no handler
Reject(s) ==
    /\ s \in clients
    /\ inv[s].pc = "idle"
    /\ \E tool \in ToolNames :
         \E raw \in (CASE tool = "greet" -> GreetBags
                       [] tool = "calculator" -> CalculatorBags
                       [] tool = "getTime" -> GetTimeBags
                       [] tool = "geocode" -> GeocodeBags
                       [] tool = "get-weather" -> WeatherBags
                       [] OTHER -> GenerateImageBags) :
            LET bad == Offending(inputSchema(variant, tool), raw)
            IN /\ bad # {}
               /\ inv' = [inv EXCEPT ![s] =
                            [Idle EXCEPT !.pc = "done", !.tool = tool, !.raw = raw,
                                         !.result = ValidationError(bad)]]
    /\ UNCHANGED <<variant, config, env, clients, described, reviewed>>

InvokeGreet(s) ==
    /\ s \in clients
    /\ inv[s].pc = "idle"
    /\ \E raw \in GreetBags :
         /\ Offending(greetSchema, raw) = {}
         /\ LET args == Parsed(greetSchema, raw)
                outcome == IF variant = "inline" THEN GreetInline(args) ELSE GreetThrowing(args)
            IN inv' = [inv EXCEPT ![s] = Finished(Entered("greet", raw, args), outcome)]
    /\ UNCHANGED <<variant, config, env, clients, described, reviewed>>

InvokeCalculator(s) ==
    /\ s \in clients
    /\ inv[s].pc = "idle"
    /\ \E raw \in CalculatorBags :
         /\ Offending(calculatorSchema, raw) = {}
         /\ LET args == Parsed(calculatorSchema, raw)
                outcome == IF variant = "inline" THEN CalculatorInline(args)
                           ELSE CalculatorThrowing(args)
            IN inv' = [inv EXCEPT ![s] = Finished(Entered("calculator", raw, args), outcome)]
    /\ UNCHANGED <<variant, config, env, clients, described, reviewed>>

InvokeGetTime(s) ==
    /\ s \in clients
    /\ inv[s].pc = "idle"
    /\ \E raw \in GetTimeBags, now \in Instants :
         /\ Offending(getTimeSchema, raw) = {}
         /\ LET args == Parsed(getTimeSchema, raw)
                outcome == IF variant = "inline" THEN GetTimeInline(args, now)
                           ELSE GetTimeThrowing(args, now)
            IN inv' = [inv EXCEPT ![s] = Finished(Entered("getTime", raw, args), outcome)]
    /\ UNCHANGED <<variant, config, env, clients, described, reviewed>>

\* geocode up to await fetch(...)
InvokeGeocode(s) ==
    /\ s \in clients
    /\ inv[s].pc = "idle"
    /\ \E raw \in GeocodeBags :
         /\ Offending(geocodeSchema, raw) = {}
         /\ LET args == Parsed(geocodeSchema, raw)
            IN inv' = [inv EXCEPT ![s] =
                         Awaiting(Entered("geocode", raw, args), geocodeRequest(args))]
    /\ UNCHANGED <<variant, config, env, clients, described, reviewed>>

\* a server on which a failed geocode invocation takes the invocations of
\* the other callers down with it
RespondGeocodeCrashing(s) ==
    /\ inv[s].pc = "awaiting"
    /\ inv[s].tool = "geocode"
    /\ \E resp \in GeocodeResponses :
         LET outcome == IF variant = "inline" THEN GeocodeInline(inv[s].args, resp)
                        ELSE GeocodeThrowing(inv[s].args, resp)
             mine == Finished([inv[s] EXCEPT !.resp = resp, !.parsed = jsonCalled(resp)],
                              outcome)
         IN inv' = [t \in Slots |->
                      IF t = s THEN mine
                      ELSE IF mine.result.isError THEN Idle ELSE inv[t]]
    /\ UNCHANGED <<variant, config, env, clients, described, reviewed>>

\* geocode from the upstream's answer to its result
RespondGeocode(s) ==
    /\ inv[s].pc = "awaiting"
    /\ inv[s].tool = "geocode"
    /\ \E resp \in GeocodeResponses :
         LET outcome == IF variant = "inline" THEN GeocodeInline(inv[s].args, resp)
                        ELSE GeocodeThrowing(inv[s].args, resp)
         IN inv' = [inv EXCEPT ![s] =
                      Finished([inv[s] EXCEPT !.resp = resp, !.parsed = jsonCalled(resp)],
                               outcome)]
    /\ UNCHANGED <<variant, config, env, clients, described, reviewed>>

\* get-weather up to await fetch(...)
InvokeWeather(s) ==
    /\ s \in clients
    /\ inv[s].pc = "idle"
    /\ \E raw \in WeatherBags :
         /\ Offending(inputSchema(variant, "get-weather"), raw) = {}
         /\ LET args == Parsed(inputSchema(variant, "get-weather"), raw)
            IN inv' = [inv EXCEPT ![s] =
                         Awaiting(Entered("get-weather", raw, args),
                                  weatherRequest(variant, args))]
    /\ UNCHANGED <<variant, config, env, clients, described, reviewed>>

\* a handler that asks the upstream a second time when the first call
\* failed or ended in a non-success status
RespondWeatherRetrying(s) ==
    /\ inv[s].pc = "awaiting"
    /\ inv[s].tool = "get-weather"
    /\ \E resp \in WeatherResponses :
         LET outcome == IF variant = "inline" THEN WeatherInline(inv[s].args, resp)
                        ELSE WeatherThrowing(inv[s].args, resp)
         IN inv' = [inv EXCEPT ![s] =
                      IF (resp.kind = "neterr" \/ ~resp.ok) /\ Len(inv[s].sent) < 2
                      THEN Awaiting(inv[s], weatherRequest(variant, inv[s].args))
                      ELSE Finished([inv[s] EXCEPT !.resp = resp, !.parsed = jsonCalled(resp)],
                                    outcome)]
    /\ UNCHANGED <<variant, config, env, clients, described, reviewed>>

\* get-weather from the upstream's answer to its result
RespondWeather(s) ==
    /\ inv[s].pc = "awaiting"
    /\ inv[s].tool = "get-weather"
    /\ \E resp \in WeatherResponses :
         LET outcome == IF variant = "inline" THEN WeatherInline(inv[s].args, resp)
                        ELSE WeatherThrowing(inv[s].args, resp)
         IN inv' = [inv EXCEPT ![s] =
                      Finished([inv[s] EXCEPT !.resp = resp, !.parsed = jsonCalled(resp)],
                               outcome)]
    /\ UNCHANGED <<variant, config, env, clients, described, reviewed>>

\* generate-image up to await hfClient.textToImage(...)
InvokeGenerateImage(s) ==
    /\ s \in clients
    /\ inv[s].pc = "idle"
    /\ \E raw \in GenerateImageBags :
         /\ Offending(generateImageSchema, raw) = {}
         /\ LET args == Parsed(generateImageSchema, raw)
                token == IF variant = "inline" THEN credentialInline(config, env)
                         ELSE credentialThrowing(config, env)
                start == IF variant = "inline" THEN GenerateImageStartInline(args, token)
                         ELSE GenerateImageStartThrowing(args, token)
                rec == Entered("generate-image", raw, args)
            IN inv' = [inv EXCEPT ![s] =
                         IF start.kind = "await"
                         THEN Awaiting(rec, imageRequest(variant, args, token))
                         ELSE Finished(rec, start)]
    /\ UNCHANGED <<variant, config, env, clients, described, reviewed>>

\* generate-image from the inference call's answer to its result
RespondGenerateImage(s) ==
    /\ inv[s].pc = "awaiting"
    /\ inv[s].tool = "generate-image"
    /\ \E resp \in ImageResponses :
         LET outcome == IF variant = "inline" THEN GenerateImageInline(inv[s].args, resp)
                        ELSE GenerateImageThrowing(inv[s].args, resp)
         IN inv' = [inv EXCEPT ![s] = Finished([inv[s] EXCEPT !.resp = resp], outcome)]
    /\ UNCHANGED <<variant, config, env, clients, described, reviewed>>

\* the result goes to the caller; the slot takes the next invocation
Deliver(s) ==
    /\ inv[s].pc = "done"
    /\ inv' = [inv EXCEPT ![s] = Idle]
    /\ UNCHANGED <<variant, config, env, clients, described, reviewed>>

Next ==
    \E s \in Slots :
        \/ Reject(s)
        \/ InvokeGreet(s)
        \/ InvokeCalculator(s)
        \/ InvokeGetTime(s)
        \/ InvokeGeocode(s)
        \/ RespondGeocode(s)
        \/ InvokeWeather(s)
        \/ RespondWeather(s)
        \/ InvokeGenerateImage(s)
        \/ RespondGenerateImage(s)
        \/ Deliver(s)

Spec == Init /\ [][Next]_vars

(***************************************************************************)
(* Two callers at once.  Both slots take invocations, so one invocation    *)
(* can start, wait and finish while the other is suspended at its          *)
(* outbound call.  The callers draw their bags and the upstreams their     *)
(* answers from a sample of the sets above: per tool a well-formed bag,    *)
(* for some a malformed one, per upstream a success and its failures.      *)
(***************************************************************************)
SampleBags ==
    {EmptyBag,
     Bag2("name", Str("Tom"), "language", Str("ko")),
     Bag1("name", Num(7)),
     Bag3("num1", Num(1), "num2", Num(0), "operator", Str("/")),
     Bag3("num1", Num(1), "num2", Num(2), "operator", Str("/")),
     Bag1("timezone", Str("Asia/Seoul")),
     Bag1("timezone", Str("Mars/Phobos")),
     Bag3("address", Str("Seoul"), "limit", Undef, "country", Undef),
     Bag3("address", Str("Seoul"), "limit", Num(11), "country", Undef),
     Bag4("latitude", Num(37), "longitude", Num(127), "forecast_days", Undef,
          "timezone", Undef),
     Bag1("prompt", Str("a cat")),
     Bag1("prompt", Undef)}

SampleResponses ==
    {NoResponse, TransportError,
     HttpResponse(200, "OK", [json |-> "array", items |-> <<Seoul>>]),
     HttpResponse(200, "OK", [json |-> "array", items |-> <<>>]),
     HttpResponse(404, "Not Found", [json |-> "array", items |-> <<Seoul, Busan>>]),
     HttpResponse(200, "OK",
                  [json |-> "object", data |-> WeatherData("full", Undef, Undef, TRUE, 1, TRUE, 2)]),
     HttpResponse(200, "OK",
                  [json |-> "object", data |-> WeatherData("full", Bool(TRUE), Str("Bad request"), TRUE, 2, TRUE, 2)]),
     HttpResponse(503, "Service Unavailable",
                  [json |-> "object", data |-> WeatherData("full", Undef, Undef, TRUE, 2, TRUE, 2)]),
     Blob(<<137>>),
     InferenceError(TRUE, "401 Unauthorized")}

Sampled ==
    \A s \in Slots : inv[s].raw \in SampleBags /\ inv[s].resp \in SampleResponses

InitConcurrent ==
    /\ variant \in Variants
    /\ config \in (IF variant = "inline" THEN {Undef} ELSE ConfigTokens)
    /\ env \in EnvTokens
    /\ clients = Slots
    /\ inv = [s \in Slots |-> Idle]
    /\ described = NoDescription
    /\ reviewed = NoReview

NextConcurrent ==
    \E s \in Slots :
        \/ Reject(s) /\ Sampled'
        \/ InvokeGreet(s) /\ Sampled'
        \/ InvokeCalculator(s) /\ Sampled'
        \/ InvokeGetTime(s) /\ Sampled'
        \/ InvokeGeocode(s) /\ Sampled'
        \/ RespondGeocode(s) /\ Sampled'
        \/ InvokeWeather(s) /\ Sampled'
        \/ RespondWeather(s) /\ Sampled'
        \/ InvokeGenerateImage(s) /\ Sampled'
        \/ RespondGenerateImage(s) /\ Sampled'
        \/ Deliver(s)

SpecConcurrent == InitConcurrent /\ [][NextConcurrent]_vars

\* the outbound call of slot s settles and the rest of its handler runs
Resume(s) ==
    (RespondGeocode(s) \/ RespondWeather(s) \/ RespondGenerateImage(s)) /\ Sampled'

\* The runtime resumes a handler suspended at an await once the awaited
\* call has settled, whatever the other callers do: an outbound call that
\* returns or fails is followed by the rest of its handler.
SpecFair == SpecConcurrent /\ \A s \in Slots : WF_vars(Resume(s))

(***************************************************************************)
(* getWeatherDescription on its own, put to every weather code from        *)
(* -MaxCode to MaxCode and to values that are no integer.                  *)
(***************************************************************************)
\* the function exists in part_000 only
InitCodes == Init /\ variant = "throwing"

DescribeCode ==
    /\ \E code \in {Num(c) : c \in -MaxCode..MaxCode} \cup {Rat(1, 2), Undef, Null} :
         described' = [code |-> code, text |-> getWeatherDescription(code), called |-> TRUE]
    /\ UNCHANGED <<variant, config, env, clients, inv, reviewed>>

SpecCodes == InitCodes /\ [][DescribeCode]_vars

(***************************************************************************)
(* The code-review prompt on its own, put to codes, languages and          *)
(* contexts made of plain pieces and of the pieces replace looks for.      *)
(***************************************************************************)
Strings(maxLen) ==
    LET Pieces == {"x", CodePlaceholder, ReviewMarker, "$$", "$&", "$<", "$'"}
    IN UNION {[1..n -> Pieces] : n \in 0..maxLen}

\* the prompt is registered in part_000 only
InitPrompt == Init /\ variant = "throwing" /\ config = Undef /\ env = Undef

\* prompts/get for code-review: the handler runs on the arguments
GetPrompt ==
    /\ ~reviewed.called
    /\ \E code \in {Text(t) : t \in Strings(MaxCodeLen)},
          language \in {Omitted} \cup {Text(t) : t \in Strings(MaxLabelLen)},
          context \in {Omitted} \cup {Text(t) : t \in Strings(MaxLabelLen)} :
         reviewed' = [called |-> TRUE, code |-> code, language |-> language,
                      context |-> context,
                      messages |-> codeReviewPrompt(code, language, context)]
    /\ UNCHANGED <<variant, config, env, clients, inv, described>>

\* the messages go to the caller
DeliverPrompt ==
    /\ reviewed.called
    /\ reviewed' = NoReview
    /\ UNCHANGED <<variant, config, env, clients, inv, described>>

SpecPrompt == InitPrompt /\ [][GetPrompt \/ DeliverPrompt]_vars

(***************************************************************************)
(* Properties.                                                             *)
(***************************************************************************)
Done(s, tool) == inv[s].pc = "done" /\ inv[s].tool = tool /\ inv[s].entered

\* text has seg among its segments
Contains(text, seg) == \E i \in 1..Len(text) : text[i] = seg

\* the result is exactly one text block
OneTextBlock(r) == Len(r.content) = 1 /\ r.content[1].type = "text"

\* the upstream call of the invocation failed: a transport error, a
\* non-success status, a body that is no JSON, a failed inference call
UpstreamFailed(resp) ==
    \/ resp.kind \in {"neterr", "hferr"}
    \/ resp.kind = "http" /\ (~resp.ok \/ resp.body.json = "malformed")

\* C1: every result delivered to the caller, for every tool, argument bag
\* and upstream outcome, has at least one content block; after a failed
\* upstream call, a schema violation or a handler failure it is a single
\* non-empty text block with the error flag set.
C1_ResultHasContent ==
    \A s \in Slots :
        inv[s].pc = "done" =>
            /\ Len(inv[s].result.content) >= 1
            /\ (UpstreamFailed(inv[s].resp) \/ ~inv[s].entered \/ inv[s].result.isError) =>
                  /\ inv[s].result.isError
                  /\ OneTextBlock(inv[s].result)
                  /\ inv[s].result.content[1].text # <<>>

\* a thrown transport error of the throwing variant reached the caller
C1_Witness ==
    \E s \in Slots :
        /\ Done(s, "get-weather")
        /\ variant = "throwing"
        /\ inv[s].resp.kind = "neterr"
        /\ inv[s].result.isError

\* the largest numerator or denominator of a calculator result
MaxTerm == 2 * MaxNum * MaxDen + MaxNum * MaxNum

\* q = x op y, stated on the numerators and denominators
Arithmetic(op, x, y, qn, qd) ==
    CASE op = "+" -> qn * x.d * y.d = (x.n * y.d + y.n * x.d) * qd
      [] op = "-" -> qn * x.d * y.d = (x.n * y.d - y.n * x.d) * qd
      [] op = "*" -> qn * x.d * y.d = x.n * y.n * qd
      [] OTHER -> qn * x.d * y.n = x.n * y.d * qd

\* C2: the calculator reports "{num1} {operator} {num2} = {result}" with
\* result the arithmetic result of num1 operator num2; a division by zero
\* is an error and carries no "= result".
C2_CalculatorArithmetic ==
    \A s \in Slots :
        Done(s, "calculator") =>
            LET a == inv[s].args
                r == inv[s].result
                text == r.content[1].text
            IN /\ OneTextBlock(r)
               /\ IF a.operator.s = "/" /\ a.num2.n = 0
                  THEN r.isError /\ ~Contains(text, " = ") /\ r.structuredContent = <<>>
                  ELSE /\ ~r.isError
                       /\ Len(text) = 7
                       /\ SubSeq(text, 1, 6) =
                            <<NumText(a.num1), " ", a.operator.s, " ", NumText(a.num2), " = ">>
                       /\ \E qn \in -MaxTerm..MaxTerm, qd \in 1..MaxTerm :
                            /\ GCD(Abs(qn), qd) = 1
                            /\ text[7] = NumText([t |-> "number", n |-> qn, d |-> qd, s |-> ""])
                            /\ Arithmetic(a.operator.s, a.num1, a.num2, qn, qd)

\* a quotient that is no integer was reported, and a division by zero refused
C2_Witness ==
    \E s \in Slots :
        /\ Done(s, "calculator")
        /\ inv[s].args.operator.s = "/"
        /\ \/ inv[s].args.num2.n = 0 /\ inv[s].result.isError
           \/ inv[s].args.num1 = Num(1) /\ inv[s].args.num2 = Num(2)
              /\ ~inv[s].result.isError

\* what the other variant's calculator delivers for the same arguments
OtherCalculator(a) ==
    ToolResult(IF variant = "inline" THEN CalculatorThrowing(a) ELSE CalculatorInline(a))

\* C3: for a division by zero both variants deliver the error flag and
\* exactly one text block containing the divide-by-zero message, with no
\* numeric result; for every other valid input both deliver the same text.
C3_VariantsEquivalent ==
    \A s \in Slots :
        Done(s, "calculator") =>
            LET a == inv[s].args
                here == inv[s].result
                there == OtherCalculator(a)
            IN IF a.operator.s = "/" /\ a.num2.n = 0
               THEN \A r \in {here, there} :
                        /\ r.isError
                        /\ OneTextBlock(r)
                        /\ Contains(r.content[1].text, DivZeroMsg)
                        /\ ~Contains(r.content[1].text, " = ")
                        /\ r.structuredContent = <<>>
               ELSE /\ OneTextBlock(here) /\ OneTextBlock(there)
                    /\ here.content[1].text = there.content[1].text
                    /\ here.isError = there.isError

\* the throwing variant divided by zero
C3_Witness ==
    \E s \in Slots :
        /\ Done(s, "calculator")
        /\ variant = "throwing"
        /\ inv[s].args.operator.s = "/"
        /\ inv[s].args.num2.n = 0
        /\ inv[s].args.num1.n # 0

\* the positions of the numbered result blocks of a geocode text
BlockStarts(text) == {i \in 1..Len(text) : text[i] = ResultLabel}

\* the upstream answered with a list of matches
ListedMatches(resp) ==
    resp.kind = "http" /\ resp.ok /\ resp.body.json = "array" /\ Len(resp.body.items) > 0

\* C4: geocode asks the upstream for limit results and its text holds at
\* most limit numbered blocks, block k describing the k-th match returned.
C4_AtMostLimitBlocks ==
    \A s \in Slots :
        Done(s, "geocode") =>
            LET a == inv[s].args
                text == inv[s].result.content[1].text
            IN /\ Len(inv[s].sent) = 1
               /\ Param(inv[s].sent[1], "limit") = Str(NumText(a.limit))
               /\ ListedMatches(inv[s].resp) =>
                     /\ Cardinality(BlockStarts(text)) <= a.limit.n
                     /\ \A i \in BlockStarts(text) :
                           LET k == Cardinality({j \in BlockStarts(text) : j <= i})
                               m == inv[s].resp.body.items[k]
                           IN /\ text[i + 1] = ToString(k)
                              /\ text[i + 3] = IF Truthy(m.display_name) \/ variant = "inline"
                                               THEN Render(m.display_name) ELSE Render(a.address)

\* C5: a success status with an empty list, or a body that is no list,
\* gives a result without the error flag: one text block saying that
\* nothing was found for the queried address.
C5_NoMatchIsNoError ==
    \A s \in Slots :
        (/\ Done(s, "geocode")
         /\ inv[s].resp.kind = "http" /\ inv[s].resp.ok
         /\ inv[s].resp.body.json # "malformed"
         /\ ~ListedMatches(inv[s].resp)) =>
            LET r == inv[s].result
                text == r.content[1].text
            IN /\ ~r.isError
               /\ OneTextBlock(r)
               /\ Len(text) >= 4
               /\ SubSeq(text, 1, 3) = <<AddressLabel, Render(inv[s].args.address), "\"">>
               /\ text[Len(text)] = NoMatchMsg
               /\ BlockStarts(text) = {}

\* the throwing variant got an empty list, and some variant a body that is no list
C5_Witness ==
    \E s \in Slots :
        /\ Done(s, "geocode")
        /\ inv[s].resp.kind = "http" /\ inv[s].resp.ok
        /\ \/ variant = "throwing" /\ inv[s].resp.body.json = "array"
              /\ inv[s].resp.body.items = <<>>
           \/ inv[s].resp.body.json = "object"
        /\ ~inv[s].result.isError

\* the date of a daily entry as the report shows it
DailyToken(v, date) == IF v = "inline" THEN Render(date) ELSE toLocaleDateString(date)

DailyTokens == {DailyToken(v, Str(IsoDate(k))) : k \in 1..16, v \in Variants}

IsDailyToken(seg) == seg \in DailyTokens

\* the upstream answered with a payload that reports no error
ForecastPayload(resp) ==
    resp.kind = "http" /\ resp.ok /\ resp.body.json = "object" /\ ~Truthy(resp.body.data.error)

\* C6: for a payload with a daily series of length d the daily block of
\* the report holds min(forecast_days, d) entries, the first days of the
\* series in its order.
C6_DailyEntries ==
    \A s \in Slots :
        (/\ Done(s, "get-weather")
         /\ ForecastPayload(inv[s].resp)
         /\ inv[s].resp.body.data.hasDaily) =>
            LET data == inv[s].resp.body.data
                d == Len(data.daily.time.vals)
                fd == inv[s].args.forecast_days.n
                text == inv[s].result.content[1].text
            IN /\ ~inv[s].result.isError
               /\ fd \in 1..16
               /\ SelectSeq(text, IsDailyToken) =
                    [i \in 1..Min(fd, d) |-> DailyToken(variant, data.daily.time.vals[i])]

\* fewer days were asked for than the upstream returned, and also more
C6_Witness ==
    \E s \in Slots :
        /\ Done(s, "get-weather")
        /\ ForecastPayload(inv[s].resp)
        /\ inv[s].resp.body.data.hasDaily
        /\ Len(inv[s].resp.body.data.daily.time.vals) = MaxDays
        /\ inv[s].args.forecast_days.n = 2
        /\ Len(SelectSeq(inv[s].result.content[1].text, IsDailyToken)) = 2

\* C7: a timezone the formatting facility does not recognise ends getTime
\* in an error that starts with the invalid-timezone message and names the
\* input; no time is reported.
C7_UnknownZoneIsError ==
    \A s \in Slots :
        (Done(s, "getTime") /\ ~Recognised(inv[s].args.timezone.s)) =>
            LET r == inv[s].result
                text == r.content[1].text
            IN /\ r.isError
               /\ OneTextBlock(r)
               /\ Len(text) >= 2
               /\ text[1] = InvalidTimezoneMsg
               /\ text[2] = inv[s].raw.timezone.s
               /\ ~Contains(text, "Timezone: ")
               /\ r.structuredContent = <<>>

C7_Witness ==
    \E s \in Slots :
        /\ Done(s, "getTime")
        /\ inv[s].args.timezone = Str("Mars/Phobos")
        /\ inv[s].result.isError

\* a credential is available to the server: a configuration value or HF_TOKEN
CredentialAvailable == Truthy(config) \/ Truthy(env)

\* C8: without a credential generate-image fails with the missing-credential
\* message; with one, the outbound call carries the configuration value, or
\* else the environment's.
C8_CredentialRequired ==
    \A s \in Slots :
        Done(s, "generate-image") =>
            IF CredentialAvailable
            THEN /\ Len(inv[s].sent) = 1
                 /\ inv[s].sent[1].token = IF Truthy(config) THEN config ELSE env
            ELSE /\ inv[s].result.isError
                 /\ Contains(inv[s].result.content[1].text, MissingTokenMsg)
                 /\ inv[s].sent = <<>>

\* C9: a success status with a payload that reports an error, with a
\* reason, ends get-weather in an error carrying the API-error message and
\* the reason.
C9_ApiErrorIsError ==
    \A s \in Slots :
        (/\ Done(s, "get-weather")
         /\ inv[s].resp.kind = "http" /\ inv[s].resp.ok
         /\ inv[s].resp.body.json = "object"
         /\ Truthy(inv[s].resp.body.data.error)
         /\ Truthy(inv[s].resp.body.data.reason)) =>
            /\ inv[s].result.isError
            /\ Contains(inv[s].result.content[1].text, ApiErrorMsg)
            /\ Contains(inv[s].result.content[1].text, inv[s].resp.body.data.reason.s)

\* C10: a non-success status ends geocode and get-weather in an error that
\* carries the request-failed message and the status code; the body is not
\* read and nothing of it is shown.
C10_BadStatusIsError ==
    \A s \in Slots :
        (/\ Done(s, "geocode") \/ Done(s, "get-weather")
         /\ inv[s].resp.kind = "http" /\ ~inv[s].resp.ok) =>
            LET r == inv[s].result
                text == r.content[1].text
            IN /\ r.isError
               /\ OneTextBlock(r)
               /\ \E i \in 1..(Len(text) - 1) :
                     text[i] = RequestFailedMsg /\ text[i + 1] = ToString(inv[s].resp.status)
               /\ ~inv[s].parsed
               /\ BlockStarts(text) = {}
               /\ ~Contains(text, "location: latitude ")
               /\ Len(inv[s].sent) = 1

C10_Witness ==
    \E s \in Slots :
        /\ Done(s, "get-weather")
        /\ variant = "throwing"
        /\ inv[s].resp.kind = "http"
        /\ inv[s].resp.status = 503
        /\ inv[s].result.isError

\* the greeting the caller is promised for the name and language it sent
PromisedGreeting(name, language) ==
    IF language = Str("ko")
    THEN <<"annyeonghaseyo, ", name.s, "nim!">>
    ELSE <<"Hey there, ", name.s, "! (wave) Nice to meet you!">>

\* C11: the greet text is a function of the name and language the caller
\* sent and of nothing else (not the variant, the credential or what the
\* other slot does): the Korean greeting for ko, the English one for en,
\* and for an omitted language the same as for en; it is never an error.
C11_GreetDeterministic ==
    \A s \in Slots :
        Done(s, "greet") =>
            LET r == inv[s].result
                name == inv[s].raw.name
                language == inv[s].raw.language
            IN /\ ~r.isError
               /\ OneTextBlock(r)
               /\ language \in {Undef, Str("ko"), Str("en")}
               /\ r.content[1].text = PromisedGreeting(name, language)
               /\ language = Undef => r.content[1].text = PromisedGreeting(name, Str("en"))

\* greet ran for ko, and also with the language left out
C11_Witness ==
    \E s \in Slots :
        /\ Done(s, "greet")
        /\ inv[s].raw.name = Str("Tom")
        /\ \/ inv[s].raw.language = Str("ko")
              /\ inv[s].result.content[1].text = <<"annyeonghaseyo, ", "Tom", "nim!">>
           \/ inv[s].raw.language = Undef
              /\ inv[s].result.content[1].text[1] = "Hey there, "

\* x is no number of the range lo..hi (an integer one when int)
NotInRange(x, int, lo, hi) ==
    \/ x.t # "number"
    \/ int /\ x.d # 1
    \/ x.n < lo * x.d
    \/ x.n > hi * x.d

\* the bag breaks what the tool declares: a required field is missing, a
\* field has the wrong type, a number is out of range or no integer, an
\* enum value is none of the enum
Malformed(v, tool, bag) ==
    CASE tool = "greet" ->
            \/ bag.name.t # "string"
            \/ bag.language \notin {Undef, Str("ko"), Str("en")}
      [] tool = "calculator" ->
            \/ bag.num1.t # "number"
            \/ bag.num2.t # "number"
            \/ bag.operator \notin {Str("+"), Str("-"), Str("*"), Str("/")}
      [] tool = "getTime" -> bag.timezone.t # "string"
      [] tool = "geocode" ->
            \/ bag.address.t # "string"
            \/ bag.limit # Undef /\ NotInRange(bag.limit, TRUE, 1, 10)
            \/ bag.country.t \notin {"undefined", "string"}
      [] tool = "get-weather" ->
            \/ NotInRange(bag.latitude, FALSE, -90, 90)
            \/ NotInRange(bag.longitude, FALSE, -180, 180)
            \/ bag.forecast_days # Undef /\ NotInRange(bag.forecast_days, TRUE, 1, 16)
            \/ v = "throwing" /\ bag.timezone.t \notin {"undefined", "string"}
      [] OTHER -> bag.prompt.t # "string"

\* C12: an invocation whose argument bag breaks the tool's schema never
\* enters the handler and issues no outbound request; its outcome is a
\* validation error naming a field of the bag.  A handler that was entered
\* got a bag that satisfies the schema.
C12_ValidationFirst ==
    \A s \in Slots :
        inv[s].pc # "idle" =>
            IF Malformed(variant, inv[s].tool, inv[s].raw)
            THEN /\ inv[s].pc = "done"
                 /\ ~inv[s].entered
                 /\ inv[s].sent = <<>>
                 /\ inv[s].resp = NoResponse
                 /\ inv[s].result.isError
                 /\ OneTextBlock(inv[s].result)
                 /\ Len(inv[s].result.content[1].text) = 2
                 /\ inv[s].result.content[1].text[1] = "validation error: "
                 /\ inv[s].result.content[1].text[2] \in ArgNames
            ELSE inv[s].entered

\* a limit of 11, a forecast of 17 days and a latitude of 91 were refused
C12_Witness ==
    \E s \in Slots :
        /\ inv[s].pc = "done"
        /\ ~inv[s].entered
        /\ \/ inv[s].tool = "geocode" /\ inv[s].raw.limit = Num(11)
           \/ inv[s].tool = "get-weather" /\ inv[s].raw.forecast_days = Num(17)
           \/ inv[s].tool = "get-weather" /\ inv[s].raw.latitude = Num(91)
        /\ inv[s].result.isError

\* what a template literal shows for a value that is not there
Placeholder(seg) == seg \in {"undefined", WeatherCodeLabel \o "undefined"}

\* C13: for a payload that reports no error, whichever of its fields and
\* series are missing, get-weather returns a report without the error flag
\* and no line of the report shows a placeholder for a missing value.
C13_MissingFieldsOmitted ==
    \A s \in Slots :
        (Done(s, "get-weather") /\ ForecastPayload(inv[s].resp)) =>
            /\ ~inv[s].result.isError
            /\ OneTextBlock(inv[s].result)
            /\ \A i \in 1..Len(inv[s].result.content[1].text) :
                  ~Placeholder(inv[s].result.content[1].text[i])

\* how the handler of greet, calculator, getTime, geocode or get-weather of
\* variant v can end, given the arguments it got and the answer of its
\* outbound call
PureOutcomes(v, tool, a, resp) ==
    LET inline == v = "inline"
    IN CASE tool = "greet" -> {IF inline THEN GreetInline(a) ELSE GreetThrowing(a)}
         [] tool = "calculator" ->
               {IF inline THEN CalculatorInline(a) ELSE CalculatorThrowing(a)}
         [] tool = "getTime" ->
               {IF inline THEN GetTimeInline(a, now) ELSE GetTimeThrowing(a, now) :
                    now \in Instants}
         [] tool = "geocode" ->
               {IF inline THEN GeocodeInline(a, resp) ELSE GeocodeThrowing(a, resp)}
         [] OTHER ->
               {IF inline THEN WeatherInline(a, resp) ELSE WeatherThrowing(a, resp)}

\* how the handler of a finished invocation can have ended
HandlerOutcomes(rec) ==
    LET a == rec.args
        inline == variant = "inline"
        token == IF inline THEN credentialInline(config, env) ELSE credentialThrowing(config, env)
    IN IF rec.tool # "generate-image"
       THEN PureOutcomes(variant, rec.tool, a, rec.resp)
       ELSE IF rec.resp = NoResponse
       THEN {IF inline THEN GenerateImageStartInline(a, token)
             ELSE GenerateImageStartThrowing(a, token)}
       ELSE {IF inline THEN GenerateImageInline(a, rec.resp)
             ELSE GenerateImageThrowing(a, rec.resp)}

\* C14: each variant presents failures in one style.  The handlers of
\* index.ts never throw: a failure is a returned result with the error
\* flag.  The handlers of part_000 never return a result with the error
\* flag: a failure is thrown.  This holds for every handler and every path.
C14_OneErrorStyle ==
    \A s \in Slots :
        (inv[s].pc = "done" /\ inv[s].entered) =>
            /\ \E o \in HandlerOutcomes(inv[s]) : ToolResult(o) = inv[s].result
            /\ \A o \in HandlerOutcomes(inv[s]) :
                  ToolResult(o) = inv[s].result =>
                     /\ o.kind \in {"return", "throw"}
                     /\ variant = "inline" => o.kind = "return"
                     /\ variant = "throwing" =>
                           (o.kind = "return" => ~o.result.isError)
                     /\ inv[s].result.isError =>
                           o.kind = (IF variant = "inline" THEN "return" ELSE "throw")

\* the inference call of the throwing variant failed
C14_Witness ==
    \E s \in Slots :
        /\ Done(s, "generate-image")
        /\ variant = "throwing"
        /\ inv[s].resp.kind = "hferr"
        /\ inv[s].result.isError

\* the tools of part_000 that declare an output schema
MirroredTools == {"greet", "calculator", "getTime", "geocode", "get-weather"}

\* C15: a result that carries a structured mirror carries one whose
\* content list is the result's content list, block for block; the
\* throwing variant attaches it on every success path of greet, calculator,
\* getTime, geocode (the no-results path too) and get-weather, and nothing
\* else carries a mirror.
C15_MirrorIsContent ==
    \A s \in Slots :
        inv[s].pc = "done" =>
            LET r == inv[s].result
            IN /\ r.structuredContent # <<>> =>
                     /\ Len(r.structuredContent) = 1
                     /\ r.structuredContent[1].content = r.content
                     /\ \A i \in 1..Len(r.content) :
                           /\ r.structuredContent[1].content[i].type = "text"
                           /\ r.structuredContent[1].content[i].text = r.content[i].text
                     /\ ~r.isError
                     /\ variant = "throwing"
                     /\ inv[s].tool \in MirroredTools
               /\ (/\ variant = "throwing" /\ inv[s].entered /\ ~r.isError
                   /\ inv[s].tool \in MirroredTools) => r.structuredContent # <<>>

\* the no-results path of geocode and a weather report, each with its mirror
C15_Witness ==
    \E s \in Slots :
        /\ inv[s].pc = "done"
        /\ inv[s].result.structuredContent # <<>>
        /\ \/ inv[s].tool = "geocode" /\ ~ListedMatches(inv[s].resp)
           \/ inv[s].tool = "get-weather" /\ inv[s].resp.body.data.hasHourly

\* C16: the credential reaches generate-image only.  Whatever the
\* configuration value and HF_TOKEN are, present or not, the server is
\* built, and an invocation of greet, calculator, getTime, geocode or
\* get-weather sends no credential with its request and ends in the result
\* that the variant, its arguments and its upstream answer determine.
C16_CredentialOnlyForImages ==
    \A s \in Slots :
        (inv[s].pc # "idle" /\ inv[s].entered /\ inv[s].tool # "generate-image") =>
            /\ \A i \in 1..Len(inv[s].sent) : inv[s].sent[i].token = Undef
            /\ inv[s].pc = "done" =>
                  inv[s].result \in
                      {ToolResult(o) :
                          o \in PureOutcomes(variant, inv[s].tool, inv[s].args, inv[s].resp)}

\* a server without any credential answered a geocode invocation
C16_Witness ==
    \E s \in Slots :
        /\ ~CredentialAvailable
        /\ Done(s, "geocode")
        /\ ListedMatches(inv[s].resp)
        /\ ~inv[s].result.isError

\* the result of the invocation in slot s is the one its own tool, bag and
\* upstream answer determine
OwnResult(s) ==
    IF inv[s].entered
    THEN inv[s].result \in {ToolResult(o) : o \in HandlerOutcomes(inv[s])}
    ELSE inv[s].result = ValidationError(Offending(inputSchema(variant, inv[s].tool), inv[s].raw))

\* every registered tool can be invoked from slot s
AllToolsRegistered(s) ==
    /\ ENABLED InvokeGreet(s)
    /\ ENABLED InvokeCalculator(s)
    /\ ENABLED InvokeGetTime(s)
    /\ ENABLED InvokeGeocode(s)
    /\ ENABLED InvokeWeather(s)
    /\ ENABLED InvokeGenerateImage(s)

\* a step of one invocation leaves every other invocation, the build and
\* the credential as they were
OthersUntouched ==
    /\ \A s \in Slots : inv'[s] # inv[s] => \A t \in Slots \ {s} : inv'[t] = inv[t]
    /\ UNCHANGED <<variant, config, env, clients, described, reviewed>>

\* C17: with two invocations in flight under any interleaving, the result
\* of each is the one its own arguments and its own upstream answer
\* determine; a step of one invocation, a failing one too, changes nothing
\* of the other, and whatever has failed, a free slot can invoke every
\* registered tool.
C17_Independent ==
    /\ [](\A s \in Slots :
            /\ inv[s].pc = "done" => OwnResult(s)
            /\ inv[s].pc = "idle" => AllToolsRegistered(s))
    /\ [][OthersUntouched]_vars

\* one invocation has failed while another is suspended at its outbound call
C17_Witness ==
    \E s, t \in Slots :
        /\ s # t
        /\ inv[s].pc = "done" /\ inv[s].entered /\ inv[s].result.isError
        /\ UpstreamFailed(inv[s].resp)
        /\ inv[t].pc = "awaiting"

\* the invocation in slot s is one of a tool that asks an HTTP upstream
AsksUpstream(s) ==
    inv[s].pc # "idle" /\ inv[s].entered /\ inv[s].tool \in {"geocode", "get-weather"}

\* the call failed in transport or ended in a non-success status
CallFailed(resp) == resp.kind = "neterr" \/ (resp.kind = "http" /\ ~resp.ok)

\* C18: a valid geocode or get-weather invocation issues one outbound
\* request, when it starts, and never another: not after a non-success
\* status and not after a transport error.  The failed call is the outcome
\* of the invocation, an error naming the transport failure or the status;
\* and an invocation suspended at its outbound call completes.
C18_OneRequestThenDone ==
    /\ [](\A s \in Slots :
            AsksUpstream(s) =>
                /\ Len(inv[s].sent) = 1
                /\ inv[s].sent[1].api =
                      (IF inv[s].tool = "geocode" THEN "nominatim" ELSE "open-meteo")
                /\ (inv[s].pc = "done" /\ CallFailed(inv[s].resp)) =>
                      /\ inv[s].result.isError
                      /\ OneTextBlock(inv[s].result)
                      /\ Contains(inv[s].result.content[1].text,
                                  IF inv[s].resp.kind = "neterr" THEN inv[s].resp.message
                                  ELSE ToString(inv[s].resp.status)))
    /\ [][\A s \in Slots : inv'[s].sent # inv[s].sent =>
                (inv[s].pc = "idle" \/ inv'[s].pc = "idle")]_vars
    /\ \A s \in Slots : (inv[s].pc = "awaiting") ~> (inv[s].pc = "done")

\* a geocode invocation whose one request failed in transport has completed
C18_Witness ==
    \E s \in Slots :
        /\ Done(s, "geocode")
        /\ inv[s].resp.kind = "neterr"
        /\ Len(inv[s].sent) = 1
        /\ inv[s].result.isError

\* the hour of an hourly entry as the report shows it
HourlyTokens == {toLocaleString(Str(IsoHour(k))) : k \in 1..48}

IsHourlyToken(seg) == seg \in HourlyTokens

\* the segments of the k-th hourly entry of a report
HourlyEntryOf(text, k) ==
    LET starts == {i \in 1..Len(text) : IsHourlyToken(text[i])}
        first == CHOOSE i \in starts : Cardinality({j \in starts : j <= i}) = k
        later == {i \in starts : i > first}
        last == IF later = {} THEN Len(text)
                ELSE (CHOOSE i \in later : \A j \in later : i <= j) - 1
    IN SubSeq(text, first, last)

\* C19: when the request asked for the hourly series and the payload has
\* one of h hours, the report lists min(24, h) hourly entries, the first
\* hours of the series in its order; an entry shows a precipitation figure,
\* the upstream's value, if and only if that hour has a value greater than
\* zero.
C19_HourlyEntries ==
    \A s \in Slots :
        (/\ Done(s, "get-weather")
         /\ Param(inv[s].sent[1], "hourly") # Undef
         /\ ForecastPayload(inv[s].resp)
         /\ inv[s].resp.body.data.hasHourly) =>
            LET hourly == inv[s].resp.body.data.hourly
                h == Len(hourly.time.vals)
                n == IF h < 24 THEN h ELSE 24
                text == inv[s].result.content[1].text
            IN /\ ~inv[s].result.isError
               /\ SelectSeq(text, IsHourlyToken) =
                    [k \in 1..n |-> toLocaleString(hourly.time.vals[k])]
               /\ \A k \in 1..n :
                     LET entry == HourlyEntryOf(text, k)
                         precip == At(hourly.precipitation, k)
                         wet == precip.t = "number" /\ precip.n > 0
                     IN /\ Contains(entry, " | precipitation: ") <=> wet
                        /\ wet => \E j \in 1..(Len(entry) - 1) :
                                     /\ entry[j] = " | precipitation: "
                                     /\ entry[j + 1] = NumText(precip)

\* a series of more than 24 hours was cut to 24 entries, wet and dry hours among them
C19_Witness ==
    \E s \in Slots :
        /\ Done(s, "get-weather")
        /\ variant = "throwing"
        /\ ForecastPayload(inv[s].resp)
        /\ inv[s].resp.body.data.hasHourly
        /\ Len(inv[s].resp.body.data.hourly.time.vals) > 24
        /\ inv[s].resp.body.data.hourly.precipitation.vals[1] = Num(1)
        /\ inv[s].resp.body.data.hourly.precipitation.vals[2] = Num(0)
        /\ Len(SelectSeq(inv[s].result.content[1].text, IsHourlyToken)) = 24

\* the codes of the WMO table of part_000
TableCodes == {0, 1, 2, 3, 45, 48, 51, 53, 55, 56, 57, 61, 63, 65, 66, 67, 71, 73, 75,
               77, 80, 81, 82, 85, 86, 95, 96, 99}

\* C20: getWeatherDescription returns, for every integer code of the
\* table, code 0 too, the description the table has for it, and for every
\* other code the fallback text that names the code; it returns a
\* non-empty text for every argument.
C20_DescriptionTotal ==
    described.called =>
        LET code == described.code
            text == described.text
        IN /\ text # ""
           /\ text # "undefined"
           /\ DOMAIN weatherCodes = TableCodes
           /\ IF code.t = "number" /\ code.d = 1 /\ code.n \in TableCodes
              THEN /\ text = weatherCodes[code.n]
                   /\ text # WeatherCodeLabel \o ToString(code.n)
                   /\ code.n = 0 => text = "(sun) clear"
                   /\ code.n = 99 => text = "(thunder) thunderstorm with heavy hail"
              ELSE /\ text = WeatherCodeLabel \o Render(code)
                   /\ code.t = "number" /\ code.d = 1 =>
                         text = WeatherCodeLabel \o ToString(code.n)

\* code 0 was described, and so was a code the table does not have
C20_Witness ==
    /\ described.called
    /\ \/ described.code = Num(0) /\ described.text = "(sun) clear"
       \/ described.code = Num(4) /\ described.text = "weather code: 4"

\* the section of an argument that was given: its label, its text as it
\* is, a blank line
Section(label, arg) ==
    IF TruthyText(arg) THEN <<label>> \o arg.text \o <<"\n\n">> ELSE <<>>

\* the prompt the caller is promised: the template with the sections, each
\* once, right before the template's marker, and the code as it is in
\* place of the placeholder
PromisedPrompt(code, language, context) ==
    <<CODE_REVIEW_PROMPT_TEMPLATE[1]>>
    \o Section(LanguageLabel, language) \o Section(ContextLabel, context)
    \o <<ReviewMarker, CODE_REVIEW_PROMPT_TEMPLATE[3]>>
    \o code.text
    \o SubSeq(CODE_REVIEW_PROMPT_TEMPLATE, 5, 6)

\* C21: for every code, language and context the code-review prompt
\* returns one user message; its text is the template with the code,
\* piece for piece as supplied, in place of the placeholder, and with the
\* language section and the context section, when given, each once right
\* before the template's own marker, not inside the code or another
\* argument's text.
C21_PromptVerbatim ==
    reviewed.called =>
        /\ Len(reviewed.messages) = 1
        /\ reviewed.messages[1].role = "user"
        /\ reviewed.messages[1].content.type = "text"
        /\ reviewed.messages[1].content.text =
              PromisedPrompt(reviewed.code, reviewed.language, reviewed.context)

====
